---- MODULE Spec2Model ----
(***************************************************************************)
(* A model of the AstraSync Python SDK: agent-type detection and           *)
(* normalization (astrasync/utils/detector.py), trust scoring              *)
(* (astrasync/utils/trust_score.py), the registration client               *)
(* (astrasync/core.py) and its HTTP transport (astrasync/utils/api.py).     *)
(*                                                                         *)
(* Python values are tagged records, so that values of different Python    *)
(* types can be stored side by side and compared:                          *)
(*   Str(s)  Num(i)  Bool(b)  None  List(<<v1, ...>>)  Dict([k |-> v])     *)
(*   Obj(cls, mod, hasdict, attrs)   an instance of class cls of module mod *)
(*   Path(s)                         a pathlib path                         *)
(* An operation that raises yields Raise(e), e the exception class name.   *)
(***************************************************************************)
EXTENDS Integers, Sequences, FiniteSets, TLC

VARIABLES
    input,      \* the argument of the call under consideration
    email,      \* AstraSync.email of the client (a Python value)
    env,        \* what the environment answers: file system and HTTP service
    call,       \* the last call made: operation, steps taken, outcome
    requests    \* the HTTP requests sent so far by APIClient.session

vars == <<input, email, env, call, requests>>

(***************************************************************************)
(* Python values                                                           *)
(***************************************************************************)
Str(s) == [t |-> "str", s |-> s]
Num(i) == [t |-> "int", i |-> i]
Bool(b) == [t |-> "bool", b |-> b]
None == [t |-> "none"]
List(l) == [t |-> "list", l |-> l]
Dict(d) == [t |-> "dict", d |-> d]
Obj(cls, mod, hasdict, attrs) ==
    [t |-> "obj", cls |-> cls, mod |-> mod, hasdict |-> hasdict, attrs |-> attrs]
Path(s) == [t |-> "path", s |-> s]
Raise(e) == [t |-> "raise", exc |-> e]
NoMatch == [t |-> "nomatch"]

EmptyDict == Dict(<<>>)
EmptyList == List(<<>>)

IsRaise(v) == v.t = "raise"
IsStr(v) == v.t = "str"
IsDict(v) == v.t = "dict"
IsList(v) == v.t = "list"

\* bool(v): Python truthiness
Truthy(v) ==
    CASE v.t = "str" -> v.s # ""
      [] v.t = "int" -> v.i # 0
      [] v.t = "bool" -> v.b
      [] v.t = "none" -> FALSE
      [] v.t = "list" -> Len(v.l) > 0
      [] v.t = "dict" -> DOMAIN v.d # {}
      [] OTHER -> TRUE

\* k in d, for the contents d of a dict
Has(d, k) == k \in DOMAIN d

\* d.get(k, default), for the contents d of a dict
Get(d, k, default) == IF k \in DOMAIN d THEN d[k] ELSE default

\* v == Str(s) for a string literal s
IsLit(v, s) == v.t = "str" /\ v.s = s

\* v in [s1, s2, ...] for a list of string literals
InLits(v, lits) == v.t = "str" /\ v.s \in lits

\* key in c: membership of a string key in a container value
KeyIn(key, c) ==
    CASE c.t = "dict" -> Bool(key \in DOMAIN c.d)
      [] c.t = "list" -> Bool(\E i \in 1..Len(c.l) : IsLit(c.l[i], key))
      [] c.t = "str" ->
            Bool(\E i \in 1..(Len(c.s) - Len(key) + 1) :
                    SubSeq(c.s, i, i + Len(key) - 1) = key)
      [] OTHER -> Raise("TypeError")

\* sub in s, for two strings
Contains(s, sub) ==
    \E i \in 1..(Len(s) - Len(sub) + 1) : SubSeq(s, i, i + Len(sub) - 1) = sub

Lower1(c) ==
    CASE c = "A" -> "a" [] c = "B" -> "b" [] c = "C" -> "c" [] c = "D" -> "d"
      [] c = "E" -> "e" [] c = "F" -> "f" [] c = "G" -> "g" [] c = "H" -> "h"
      [] c = "I" -> "i" [] c = "J" -> "j" [] c = "K" -> "k" [] c = "L" -> "l"
      [] c = "M" -> "m" [] c = "N" -> "n" [] c = "O" -> "o" [] c = "P" -> "p"
      [] c = "Q" -> "q" [] c = "R" -> "r" [] c = "S" -> "s" [] c = "T" -> "t"
      [] c = "U" -> "u" [] c = "V" -> "v" [] c = "W" -> "w" [] c = "X" -> "x"
      [] c = "Y" -> "y" [] c = "Z" -> "z" [] OTHER -> c

RECURSIVE Lower(_)
\* s.lower()
Lower(s) ==
    IF Len(s) = 0 THEN ""
    ELSE Lower1(SubSeq(s, 1, 1)) \o Lower(SubSeq(s, 2, Len(s)))

\* the first result of a cascade that is not NoMatch
RECURSIVE FirstMatch(_)
FirstMatch(rs) ==
    IF Len(rs) = 0 THEN NoMatch
    ELSE IF Head(rs).t # "nomatch" THEN Head(rs)
    ELSE FirstMatch(Tail(rs))

(***************************************************************************)
(* detect_agent_type (astrasync/utils/detector.py)                         *)
(* Each rule of the cascade yields Str(tag), or NoMatch to fall through.   *)
(***************************************************************************)

\* type(v).__name__ (line 20)
ClassName(v) ==
    CASE v.t = "obj" -> v.cls
      [] v.t = "str" -> "str"
      [] v.t = "int" -> "int"
      [] v.t = "bool" -> "bool"
      [] v.t = "none" -> "NoneType"
      [] v.t = "list" -> "list"
      [] v.t = "dict" -> "dict"
      [] OTHER -> "PosixPath"

\* type(v).__module__ (line 21)
ModuleName(v) ==
    CASE v.t = "obj" -> v.mod
      [] v.t \in {"str", "int", "bool", "none", "list", "dict"} -> "builtins"
      [] OTHER -> "pathlib"

\* hasattr(v, '__dict__') (lines 36, 114): built-in values have none
HasFieldDict(v) == v.t = "obj" /\ v.hasdict

\* lines 19-33: class and module name checks on an object instance
ObjectRule(o) ==
    IF Contains(ModuleName(o), "google.adk") \/ ClassName(o) \in {"Agent", "ADKAgent"}
    THEN Str("google-adk")
    ELSE IF Contains(Lower(ModuleName(o)), "langchain")
    THEN Str("langchain")
    ELSE IF (\E p \in {"Agent", "Chain", "Executor"} : Contains(ClassName(o), p))
            /\ Contains("<class '" \o ModuleName(o) \o "." \o ClassName(o) \o "'>",
                        "langchain")
    THEN Str("langchain")
    ELSE NoMatch

\* lines 42-43
AdkSchemaRule(d) ==
    IF Has(d, "input_schema") /\ Has(d, "output_schema")
    THEN Str("google-adk") ELSE NoMatch

\* lines 45-46
AdkAgentTypeRule(d) ==
    IF Has(d, "agent_type")
       /\ InLits(d["agent_type"], {"llm", "sequential", "parallel", "loop"})
    THEN Str("google-adk") ELSE NoMatch

\* lines 49-52
AdkConfigRule(d) ==
    IF Has(d, "config") /\ IsDict(d["config"])
    THEN LET config == d["config"]
             hits == [i \in 1..3 |->
                        KeyIn(<<"google.adk", "ADKAgent", "agent_type">>[i], config)]
         IN  IF \E i \in 1..3 : IsRaise(hits[i]) THEN Raise("TypeError")
             ELSE IF \E i \in 1..3 : hits[i].b THEN Str("google-adk")
             ELSE NoMatch
    ELSE NoMatch

\* lines 55-56
McpProtocolRule(d) ==
    IF Has(d, "protocol") /\ IsLit(d["protocol"], "ai-agent")
    THEN Str("mcp") ELSE NoMatch

\* line 59: isinstance(skill, dict) and 'name' in skill
NamedSkill(skill) == IF IsDict(skill) THEN KeyIn("name", skill) ELSE Bool(FALSE)

\* lines 58-60
McpSkillsRule(d) ==
    IF Has(d, "skills") /\ IsList(Get(d, "skills", None))
    THEN LET skills == d["skills"].l
         IN  IF \E i \in 1..Len(skills) : IsRaise(NamedSkill(skills[i]))
             THEN Raise("TypeError")
             ELSE IF \A i \in 1..Len(skills) : NamedSkill(skills[i]).b
             THEN Str("mcp") ELSE NoMatch
    ELSE NoMatch

\* lines 64-69
LangchainRule(d) ==
    IF Has(d, "llm") /\ (Has(d, "tools") \/ Has(d, "memory"))
    THEN IF Has(d, "agent_type")
            /\ ~InLits(Get(d, "agent_type", None),
                       {"External", "llm", "sequential", "parallel", "loop"})
         THEN Str("langchain")
         ELSE IF ~Has(d, "agent_type") THEN Str("langchain")
         ELSE NoMatch
    ELSE NoMatch

\* lines 72-75
LettaMemoryRule(d) ==
    IF Has(d, "memory") /\ IsDict(Get(d, "memory", None))
    THEN LET typed == KeyIn("type", Get(d, "memory", EmptyDict))
         IN  IF IsRaise(typed) THEN typed
             ELSE IF ~typed.b \/ IsLit(Get(d, "type", None), "agent")
             THEN Str("letta") ELSE NoMatch
    ELSE NoMatch

\* lines 77-78
LettaTypeRule(d) ==
    IF Has(d, "type") /\ IsLit(d["type"], "agent") /\ Has(d, "memory")
    THEN Str("letta") ELSE NoMatch

\* lines 81-82
AcpRule(d) ==
    IF Has(d, "agentId") /\ Has(d, "authentication")
    THEN Str("acp") ELSE NoMatch

\* lines 85-87
OpenaiRule(d) ==
    IF Has(d, "model") /\ Has(d, "instructions") /\ IsList(Get(d, "tools", None))
    THEN Str("openai") ELSE NoMatch

\* lines 90-91
AutogptRule(d) ==
    IF \A key \in {"ai_name", "ai_role", "ai_goals"} : Has(d, key)
    THEN Str("autogpt") ELSE NoMatch

\* lines 94-96
AgentforceRule(d) ==
    IF Has(d, "agent_type") /\ IsLit(d["agent_type"], "External")
       /\ Has(d, "agent_template_type")
    THEN Str("agentforce") ELSE NoMatch

\* MappingRules with the MCP predicates tried before the Google ADK ones
MappingRulesMcpFirst(d) ==
    LET r == FirstMatch(<<McpProtocolRule(d), McpSkillsRule(d), AdkSchemaRule(d),
                          AdkAgentTypeRule(d), AdkConfigRule(d), LangchainRule(d),
                          LettaMemoryRule(d), LettaTypeRule(d), AcpRule(d),
                          OpenaiRule(d), AutogptRule(d), AgentforceRule(d)>>)
    IN  IF r.t = "nomatch" THEN Str("unknown") ELSE r

\* MappingRules with the Letta predicates tried before the LangChain one
MappingRulesLettaFirst(d) ==
    LET r == FirstMatch(<<AdkSchemaRule(d), AdkAgentTypeRule(d), AdkConfigRule(d),
                          McpProtocolRule(d), McpSkillsRule(d), LettaMemoryRule(d),
                          LettaTypeRule(d), LangchainRule(d), AcpRule(d),
                          OpenaiRule(d), AutogptRule(d), AgentforceRule(d)>>)
    IN  IF r.t = "nomatch" THEN Str("unknown") ELSE r

\* lines 41-98: the mapping predicates in their order, then the catch-all
MappingRules(d) ==
    LET r == FirstMatch(<<AdkSchemaRule(d), AdkAgentTypeRule(d), AdkConfigRule(d),
                          McpProtocolRule(d), McpSkillsRule(d), LangchainRule(d),
                          LettaMemoryRule(d), LettaTypeRule(d), AcpRule(d),
                          OpenaiRule(d), AutogptRule(d), AgentforceRule(d)>>)
    IN  IF r.t = "nomatch" THEN Str("unknown") ELSE r

\* ObjectFallback without the hasattr(agent_data, '__dict__') test of line 36
ObjectFallbackUnguarded(o) ==
    IF HasFieldDict(o) THEN MappingRules(o.attrs) ELSE Raise("AttributeError")

\* lines 36-39: an object without __dict__ is 'unknown'
ObjectFallback(o) ==
    IF HasFieldDict(o) THEN MappingRules(o.attrs) ELSE Str("unknown")

\* lines 7-98
detect_agent_type(agent_data) ==
    IF ~IsDict(agent_data)
    THEN LET r == ObjectRule(agent_data)
         IN  IF r.t # "nomatch" THEN r ELSE ObjectFallback(agent_data)
    ELSE MappingRules(agent_data.d)

(***************************************************************************)
(* Python helpers used by normalize_agent_data                             *)
(***************************************************************************)

\* the first exception raised by a sequence of statements, or NoMatch
RECURSIVE FirstRaise(_)
FirstRaise(vs) ==
    IF Len(vs) = 0 THEN NoMatch
    ELSE IF IsRaise(Head(vs)) THEN Head(vs)
    ELSE FirstRaise(Tail(vs))

\* the keys of a dict in a fixed order, as a sequence
RECURSIVE KeySeqOf(_)
KeySeqOf(ks) ==
    IF ks = {} THEN <<>>
    ELSE LET k == CHOOSE x \in ks : \A y \in ks : Len(x) <= Len(y)
         IN  <<k>> \o KeySeqOf(ks \ {k})

\* iter(v): the sequence of elements a for-loop over v visits
Iterate(v) ==
    CASE v.t = "list" -> List(v.l)
      [] v.t = "str" -> List([i \in 1..Len(v.s) |-> Str(SubSeq(v.s, i, i))])
      [] v.t = "dict" ->
            LET ks == KeySeqOf(DOMAIN v.d)
            IN  List([i \in 1..Len(ks) |-> Str(ks[i])])
      [] OTHER -> Raise("TypeError")

\* v[:n]
Slice(v, n) ==
    CASE v.t = "str" -> Str(IF Len(v.s) <= n THEN v.s ELSE SubSeq(v.s, 1, n))
      [] v.t = "list" -> List(IF Len(v.l) <= n THEN v.l ELSE SubSeq(v.l, 1, n))
      [] OTHER -> Raise("TypeError")

\* len(v)
PyLen(v) ==
    CASE v.t = "str" -> Num(Len(v.s))
      [] v.t = "list" -> Num(Len(v.l))
      [] v.t = "dict" -> Num(Cardinality(DOMAIN v.d))
      [] OTHER -> Raise("TypeError")

Digit(n) == SubSeq("0123456789", n + 1, n + 1)

RECURSIVE Digits(_)
Digits(n) == IF n < 10 THEN Digit(n) ELSE Digits(n \div 10) \o Digit(n % 10)

RECURSIVE PyRepr(_), ReprItems(_), ReprPairs(_, _)
\* repr(v)
PyRepr(v) ==
    CASE v.t = "str" -> "'" \o v.s \o "'"
      [] v.t = "int" -> IF v.i < 0 THEN "-" \o Digits(0 - v.i) ELSE Digits(v.i)
      [] v.t = "bool" -> IF v.b THEN "True" ELSE "False"
      [] v.t = "none" -> "None"
      [] v.t = "list" -> "[" \o ReprItems(v.l) \o "]"
      [] v.t = "dict" -> "{" \o ReprPairs(v.d, KeySeqOf(DOMAIN v.d)) \o "}"
      [] v.t = "obj" -> "<" \o v.mod \o "." \o v.cls \o " object>"
      [] OTHER -> "PosixPath('" \o v.s \o "')"

ReprItems(l) ==
    IF Len(l) = 0 THEN ""
    ELSE IF Len(l) = 1 THEN PyRepr(l[1])
    ELSE PyRepr(l[1]) \o ", " \o ReprItems(Tail(l))

ReprPairs(d, ks) ==
    IF Len(ks) = 0 THEN ""
    ELSE LET one == "'" \o ks[1] \o "': " \o PyRepr(d[ks[1]])
         IN  IF Len(ks) = 1 THEN one ELSE one \o ", " \o ReprPairs(d, Tail(ks))

\* str(v), as str() or an f-string renders a value
PyStr(v) ==
    CASE v.t = "str" -> v.s
      [] v.t = "path" -> v.s
      [] OTHER -> PyRepr(v)

\* v.get(k, default) on an arbitrary value v
DictGet(v, k, default) ==
    IF IsDict(v) THEN Get(v.d, k, default) ELSE Raise("AttributeError")

\* [F(x) for x in v]: the first exception raised, if any, else the list
MapIter(v, F(_)) ==
    LET it == Iterate(v)
    IN  IF IsRaise(it) THEN it
        ELSE LET out == [i \in 1..Len(it.l) |-> F(it.l[i])]
             IN  IF \E i \in 1..Len(out) : IsRaise(out[i])
                 THEN out[CHOOSE i \in 1..Len(out) :
                            IsRaise(out[i]) /\ \A j \in 1..(i - 1) : ~IsRaise(out[j])]
                 ELSE List(out)

\* the elements of a sequence that are dicts, in order
RECURSIVE OnlyDicts(_)
OnlyDicts(l) ==
    IF Len(l) = 0 THEN <<>>
    ELSE (IF IsDict(Head(l)) THEN <<Head(l)>> ELSE <<>>) \o OnlyDicts(Tail(l))

(***************************************************************************)
(* calculate_trust_score (astrasync/utils/trust_score.py)                  *)
(***************************************************************************)
BaseScore == 70
Bonus == 5
DescLong == 50
DescVeryLong == 100
CapsMany == 3
ScoreCap == 95

Min(a, b) == IF a <= b THEN a ELSE b

\* lines 8-9: name quality
NameBonus(r) ==
    IF Truthy(Get(r, "name", None)) /\ ~IsLit(r["name"], "Unnamed Agent")
    THEN Bonus ELSE 0

\* DescBonus with the second comparison of line 15 turned around
DescBonusFlipped(n) ==
    (IF n > DescLong THEN Bonus ELSE 0) + (IF n < DescVeryLong THEN Bonus ELSE 0)

\* lines 12-16: description quality, given len(desc)
DescBonus(n) ==
    (IF n > DescLong THEN Bonus ELSE 0) + (IF n > DescVeryLong THEN Bonus ELSE 0)

\* lines 19-23: capabilities, given len(capabilities)
CapsBonus(n) ==
    (IF n > 0 THEN Bonus ELSE 0) + (IF n > CapsMany THEN Bonus ELSE 0)

\* lines 26-27: version info
VersionBonus(r) == IF Truthy(Get(r, "version", None)) THEN Bonus ELSE 0

\* CapScore without the cap of line 29
CapScoreOff(score) == score

\* line 29
CapScore(score) == Min(score, ScoreCap)

\* lines 3-29, r the contents of the record
calculate_trust_score(r) ==
    LET dlen == PyLen(Get(r, "description", Str("")))
        clen == PyLen(Get(r, "capabilities", EmptyList))
    IN  IF IsRaise(dlen) THEN dlen
        ELSE IF IsRaise(clen) THEN clen
        ELSE Num(CapScore(BaseScore + NameBonus(r) + DescBonus(dlen.i)
                          + CapsBonus(clen.i) + VersionBonus(r)))

(***************************************************************************)
(* normalize_agent_data (astrasync/utils/detector.py)                      *)
(***************************************************************************)

\* lines 113-117: the mapping view of the input
MappingView(agent_data) ==
    IF IsDict(agent_data) THEN agent_data.d
    ELSE IF HasFieldDict(agent_data) THEN agent_data.attrs
    ELSE <<>>

\* lines 120-127
BaseRecord(agent_type, d) ==
    [agentType |-> Str(agent_type),
     version |-> Get(d, "version", Str("1.0.0")),
     name |-> Str(""),
     description |-> Str(""),
     capabilities |-> EmptyList,
     owner |-> Str("")]

\* the assignments of one branch, in statement order; the first exception wins
SetFields(base, name, description, capabilities, owner) ==
    LET e == FirstRaise(<<name, description, capabilities, owner>>)
    IN  IF e.t = "raise" THEN e
        ELSE Dict([base EXCEPT !.name = name, !.description = description,
                               !.capabilities = capabilities, !.owner = owner])

\* SkillName reading the key the OpenAI branch reads (line 155)
SkillNameByType(skill) == DictGet(skill, "type", Str(""))

\* line 133: skill.get('name', '')
SkillName(skill) == DictGet(skill, "name", Str(""))

\* lines 130-134
NormalizeMcp(base, d) ==
    SetFields(base,
        Get(d, "name", Str("Unnamed MCP Agent")),
        Get(d, "description", Str("MCP protocol agent")),
        MapIter(Get(d, "skills", EmptyList), SkillName),
        Get(d, "owner", Get(d, "developer", Str(""))))

\* lines 136-140
NormalizeLetta(base, d) ==
    SetFields(base,
        Get(d, "name", Str("Unnamed Letta Agent")),
        Get(d, "description", Str("Memory-augmented agent")),
        List(<<Str("memory"), Str("recall"), Str("persistent_context")>>),
        Get(d, "owner", Get(d, "creator", Str(""))))

\* line 145: list(v.keys())
KeysList(v) ==
    IF IsDict(v)
    THEN LET ks == KeySeqOf(DOMAIN v.d) IN List([i \in 1..Len(ks) |-> Str(ks[i])])
    ELSE Raise("AttributeError")

\* lines 142-146
NormalizeAcp(base, d) ==
    SetFields(base,
        Get(d, "name", Str("ACP Agent " \o PyStr(Get(d, "agentId", Str("Unknown"))))),
        Get(d, "description", Str("IBM Agent Communication Protocol agent")),
        KeysList(Get(d, "capabilities", EmptyDict)),
        Get(d, "owner", Get(d, "organization", Str(""))))

DescriptionCap == 200

\* lines 154-157
OpenaiToolName(tool) ==
    IF IsDict(tool) THEN Get(tool.d, "type", Str("")) ELSE Str(PyStr(tool))

\* lines 148-158
NormalizeOpenai(base, d) ==
    SetFields(base,
        Get(d, "name", Str("Unnamed OpenAI Assistant")),
        Slice(Get(d, "description", Get(d, "instructions", Str("OpenAI Assistant"))),
              DescriptionCap),
        MapIter(Get(d, "tools", EmptyList), OpenaiToolName),
        Get(d, "owner", Get(d, "created_by", Str(""))))

GoalLimit == 5

\* NormalizeAutogpt reading the generic name and description keys
NormalizeAutogptGenericKeys(base, d) ==
    SetFields(base,
        Get(d, "name", Str("Unnamed AutoGPT Agent")),
        Get(d, "description", Str("AutoGPT autonomous agent")),
        Slice(Get(d, "ai_goals", EmptyList), GoalLimit),
        Get(d, "owner", Get(d, "user", Str(""))))

\* lines 160-164
NormalizeAutogpt(base, d) ==
    SetFields(base,
        Get(d, "ai_name", Str("Unnamed AutoGPT Agent")),
        Get(d, "ai_role", Str("AutoGPT autonomous agent")),
        Slice(Get(d, "ai_goals", EmptyList), GoalLimit),
        Get(d, "owner", Get(d, "user", Str(""))))

\* lines 174-177
AdkToolName(tool) ==
    IF IsDict(tool) THEN Get(tool.d, "type", Get(tool.d, "name", Str("")))
    ELSE Str(PyStr(tool))

\* lines 171-181
AdkCapabilities(d) ==
    LET tools == MapIter(Get(d, "tools", EmptyList), AdkToolName)
    IN  IF IsRaise(tools) THEN tools
        ELSE IF Truthy(Get(d, "output_schema", None))
                \/ Truthy(Get(d, "structured_output", None))
        THEN List(Append(tools.l, Str("deterministic_output")))
        ELSE tools

\* lines 166-189
NormalizeAdk(base, d) ==
    LET r == SetFields(base,
                Get(d, "name", Str("Unnamed ADK Agent")),
                Get(d, "description",
                    Str("Multi-agent orchestration powered by Google ADK")),
                AdkCapabilities(d),
                Get(d, "owner", Get(d, "developer", Str("ADK Developer"))))
    IN  IF IsRaise(r) THEN r
        ELSE Dict(r.d @@
                [framework |-> Str("google-adk"),
                 orchestration_capable |->
                    Bool(InLits(Get(d, "agent_type", None),
                                {"sequential", "parallel", "loop"})),
                 structured_output |-> Bool(Truthy(Get(d, "output_schema", None)))])

TopicLabel(topic) == DictGet(topic, "label", Str(""))

\* line 195: [topic.get('label', '') for topic in topics if isinstance(topic, dict)]
TopicLabels(topics) ==
    LET it == Iterate(topics)
    IN  IF IsRaise(it) THEN it ELSE MapIter(List(OnlyDicts(it.l)), TopicLabel)

\* lines 191-196
NormalizeAgentforce(base, d) ==
    SetFields(base,
        Get(d, "label", Str("Unnamed Agentforce Agent")),
        Get(d, "description",
            Str(PyStr(Get(d, "agent_template_type", Str("Salesforce"))) \o " agent")),
        TopicLabels(Get(d, "topics", EmptyList)),
        Get(d, "owner", Get(d, "organization", Str("Salesforce Org"))))

\* lines 203-208
NormalizeGeneric(base, d) ==
    SetFields(base,
        Get(d, "name", Get(d, "agent_name", Str("Unnamed Agent"))),
        Get(d, "description", Str("Unknown agent type")),
        Get(d, "capabilities", Get(d, "features", EmptyList)),
        Get(d, "owner", Get(d, "creator", Str(""))))

\* PostPass without the owner fallback of lines 218-219
PostPassNoOwner(n, agent_type) ==
    [n EXCEPT
        !.name = IF ~Truthy(n.name)
                 THEN Str("Unnamed " \o agent_type \o " Agent") ELSE @,
        !.description = IF ~Truthy(n.description)
                        THEN Str("A " \o agent_type \o " agent") ELSE @]

\* lines 210-219: the final validation of name, description and owner
PostPass(n, agent_type) ==
    [n EXCEPT
        !.name = IF ~Truthy(n.name)
                 THEN Str("Unnamed " \o agent_type \o " Agent") ELSE @,
        !.description = IF ~Truthy(n.description)
                        THEN Str("A " \o agent_type \o " agent") ELSE @,
        !.owner = IF ~Truthy(n.owner) THEN Str("Unknown") ELSE @]

LangchainToolName(tool) ==
    IF IsDict(tool) THEN Get(tool.d, "name", Str("")) ELSE Str(PyStr(tool))

\* astrasync/adapters/langchain.py, normalize_agent_data: the record of
\* spec.md section 3 for the langchain tag, with its fallbacks
langchain_normalize(d) ==
    LET caps == IF IsList(Get(d, "tools", EmptyList))
                THEN MapIter(Get(d, "tools", EmptyList), LangchainToolName)
                ELSE EmptyList
        name == Get(d, "name", Str(""))
        description == Get(d, "description", Str(""))
        owner == Get(d, "owner", Str(""))
        n == [agentType |-> Str("langchain"),
              version |-> Get(d, "version", Str("1.0.0")),
              name |-> IF Truthy(name) THEN name ELSE Str("Unnamed langchain Agent"),
              description |-> IF Truthy(description) THEN description
                              ELSE Str("A langchain agent"),
              capabilities |-> caps,
              owner |-> IF Truthy(owner) THEN owner ELSE Str("Unknown"),
              metadata |-> EmptyDict]
        score == calculate_trust_score(n)
    IN  Dict(n @@ [trustScore |-> IF IsRaise(score) THEN Num(BaseScore) ELSE score])

\* lines 130-208: the branch taken for a detected type
Branch(agent_type) ==
    IF agent_type \in {"mcp", "letta", "acp", "openai", "autogpt", "google-adk",
                       "agentforce", "langchain"}
    THEN agent_type ELSE "generic"

\* lines 129-208: the type-specific normalization
TypeSpecific(agent_type, base, d) ==
    CASE agent_type = "mcp" -> NormalizeMcp(base, d)
      [] agent_type = "letta" -> NormalizeLetta(base, d)
      [] agent_type = "acp" -> NormalizeAcp(base, d)
      [] agent_type = "openai" -> NormalizeOpenai(base, d)
      [] agent_type = "autogpt" -> NormalizeAutogpt(base, d)
      [] agent_type = "google-adk" -> NormalizeAdk(base, d)
      [] agent_type = "agentforce" -> NormalizeAgentforce(base, d)
      [] OTHER -> NormalizeGeneric(base, d)

\* lines 198-201: the langchain branch returns the adapter's record at once
ReturnsEarly(agent_type) == agent_type = "langchain"

\* normalize_agent_data taking the tag from a module-level variable that the
\* last detect_agent_type call has set, instead of detecting at line 110
normalize_with_last_tag(agent_data) ==
    LET tag == IF call.op = "detect_agent_type" THEN call.ret ELSE Str("unknown")
        d == MappingView(agent_data)
    IN  IF IsRaise(tag) THEN tag
        ELSE IF ReturnsEarly(tag.s) THEN langchain_normalize(d)
        ELSE LET n == TypeSpecific(tag.s, BaseRecord(tag.s, d), d)
             IN  IF IsRaise(n) THEN n ELSE Dict(PostPass(n.d, tag.s))

\* lines 101-221
normalize_agent_data(agent_data) ==
    LET tag == detect_agent_type(agent_data)
        d == MappingView(agent_data)
    IN  IF IsRaise(tag) THEN tag
        ELSE IF ReturnsEarly(tag.s) THEN langchain_normalize(d)
        ELSE LET n == TypeSpecific(tag.s, BaseRecord(tag.s, d), d)
             IN  IF IsRaise(n) THEN n ELSE Dict(PostPass(n.d, tag.s))

\* the steps normalize_agent_data takes on its way to the return or the raise
normalize_steps(agent_data) ==
    LET tag == detect_agent_type(agent_data)
        d == MappingView(agent_data)
    IN  IF IsRaise(tag) THEN <<"detect">>
        ELSE IF ReturnsEarly(tag.s) THEN <<"detect", Branch(tag.s)>>
        ELSE IF IsRaise(TypeSpecific(tag.s, BaseRecord(tag.s, d), d))
        THEN <<"detect", Branch(tag.s)>>
        ELSE <<"detect", Branch(tag.s), "postpass">>

(***************************************************************************)
(* What normalize_agent_data writes. Its only in-place writes are item     *)
(* assignments to the new dict normalized and append() calls on            *)
(* normalized['capabilities']; the input changes if and only if that list  *)
(* is an object of the input.                                              *)
(***************************************************************************)

\* CapabilitiesAlias with the Google ADK branch binding the input's tools
\* list instead of a new list at line 172
CapabilitiesAliasAdkTools(agent_type, d) ==
    IF Branch(agent_type) = "google-adk" /\ Has(d, "tools") THEN "tools"
    ELSE IF Branch(agent_type) # "generic" THEN ""
    ELSE IF Has(d, "capabilities") THEN "capabilities"
    ELSE IF Has(d, "features") THEN "features"
    ELSE ""

\* the input key whose value normalized['capabilities'] is bound to without
\* a copy, or "" when the branch binds a new list: new lists come from the
\* literals of lines 125, 139, 152 and 172, the comprehensions of lines 133
\* and 195, list() at line 145 and the slice of line 163; line 206 binds
\* the input's own value
CapabilitiesAlias(agent_type, d) ==
    IF Branch(agent_type) # "generic" THEN ""
    ELSE IF Has(d, "capabilities") THEN "capabilities"
    ELSE IF Has(d, "features") THEN "features"
    ELSE ""

\* the items appended in place to normalized['capabilities'] (lines 155,
\* 157, 175, 177 and 181), up to the first exception
AppendedInPlace(agent_type, d) ==
    LET caps == CASE Branch(agent_type) = "openai" ->
                        MapIter(Get(d, "tools", EmptyList), OpenaiToolName)
                  [] Branch(agent_type) = "google-adk" -> AdkCapabilities(d)
                  [] OTHER -> EmptyList
    IN  IF IsRaise(caps) THEN <<>> ELSE caps.l

\* agent_data after agent_data[k] has been given the value v
WithItem(agent_data, k, v) ==
    IF IsDict(agent_data) THEN Dict([agent_data.d EXCEPT ![k] = v])
    ELSE [agent_data EXCEPT !.attrs[k] = v]

\* the input as normalize_agent_data(agent_data) leaves it
InputAfterNormalize(agent_data) ==
    LET tag == detect_agent_type(agent_data)
        d == MappingView(agent_data)
        k == IF IsRaise(tag) THEN "" ELSE CapabilitiesAlias(tag.s, d)
    IN  IF k = "" \/ ~IsList(d[k]) THEN agent_data
        ELSE WithItem(agent_data, k, List(d[k].l \o AppendedInPlace(tag.s, d)))

(***************************************************************************)
(* Inputs: the mappings and objects handed to the detector and normalizer *)
(***************************************************************************)
MaxKeys == 3
MaxAttrs == 1

\* every key the detector or the normalizer reads
KeyNames ==
    <<"input_schema", "output_schema", "agent_type", "config", "protocol",
      "skills", "llm", "tools", "memory", "type", "agentId", "authentication",
      "model", "instructions", "ai_name", "ai_role", "ai_goals",
      "agent_template_type", "name", "agent_name", "description", "owner",
      "developer", "creator", "organization", "created_by", "user", "version",
      "capabilities", "features", "label", "topics", "structured_output">>

SixGoals == [i \in 1..6 |-> Str("g" \o Digit(i))]

\* the values tried under each key
ValsOf(k) ==
    CASE k = "input_schema" -> {Dict([q |-> Str("string")])}
      [] k = "output_schema" -> {EmptyDict, Dict([a |-> Str("string")])}
      [] k = "agent_type" ->
            {Str("llm"), Str("sequential"), Str("External"), Str("conversational")}
      [] k = "config" ->
            {Str("prod"), Dict([agent_class |-> Str("google.adk.agents.LlmAgent")]),
             Dict([agent_type |-> Str("llm")])}
      [] k = "protocol" -> {Str("ai-agent"), Str("http")}
      [] k = "skills" ->
            {EmptyList, List(<<Dict([name |-> Str("search")])>>),
             List(<<Str("search")>>), Num(5)}
      [] k = "llm" -> {Str("gpt-4")}
      [] k = "tools" ->
            {List(<<Str("search"), Dict([name |-> Str("calc")])>>),
             List(<<Dict([type |-> Str("function")])>>), Num(5)}
      [] k = "memory" -> {EmptyDict, Dict([type |-> Str("buffer")]), Str("buffer")}
      [] k = "type" -> {Str("agent"), Str("tool")}
      [] k = "agentId" -> {Str("a1")}
      [] k = "authentication" -> {Dict([type |-> Str("oauth2")])}
      [] k = "model" -> {Str("gpt-4")}
      [] k = "instructions" -> {Str("Be helpful"), Num(5)}
      [] k = "ai_name" -> {Str("Bot"), Str("")}
      [] k = "ai_role" -> {Str("Helper"), Str("")}
      [] k = "ai_goals" -> {List(<<Str("a"), Str("b")>>), List(SixGoals)}
      [] k = "agent_template_type" -> {Str("EinsteinServiceAgent")}
      [] k = "name" -> {Str("X"), Str("")}
      [] k = "agent_name" -> {Str("Y")}
      [] k = "description" -> {Str("A test agent"), Str(""), None}
      [] k = "owner" -> {Str("Acme"), Str("")}
      [] k = "developer" -> {Str("Dev")}
      [] k = "creator" -> {Str("Creator")}
      [] k = "organization" -> {Str("Org")}
      [] k = "created_by" -> {Str("Author")}
      [] k = "user" -> {Str("User")}
      [] k = "version" -> {Str("2.0"), Str("")}
      [] k = "capabilities" -> {List(<<Str("chat")>>), Dict([search |-> Bool(TRUE)])}
      [] k = "features" -> {List(<<Str("fast")>>)}
      [] k = "label" -> {Str("Support")}
      [] k = "topics" ->
            {List(<<Dict([label |-> Str("Billing")]), Str("faq")>>), Num(5)}
      [] k = "structured_output" -> {Bool(TRUE)}

\* (class name, declaring module) of the objects tried
Classes ==
    {<<"Agent", "google.adk.agents">>, <<"LlmAgent", "google.adk.agents">>,
     <<"AgentExecutor", "LangChain.agents">>, <<"langchainAgent", "__main__">>,
     <<"Crew", "crewai">>, <<"AssistantAgent", "autogen.agentchat">>,
     <<"MyBot", "__main__">>}

\* the empty mapping, and instances with an empty __dict__ or with none
EmptyInputs ==
    {EmptyDict, Num(5), None}
    \cup {Obj(c[1], c[2], h, <<>>) : c \in Classes, h \in BOOLEAN}

MkCall(op, steps, ret, sent) == [op |-> op, steps |-> steps, ret |-> ret, sent |-> sent]
NoCall == MkCall("none", <<>>, None, 0)
NoAnswer == [kind |-> "none"]
NoEnv == [fs |-> NoAnswer, http |-> NoAnswer]

InitDetect ==
    /\ input \in EmptyInputs
    /\ email = None
    /\ env = NoEnv
    /\ call = NoCall
    /\ requests = <<>>

\* the position of a key in KeyNames
IndexOf(k) == CHOOSE i \in 1..Len(KeyNames) : KeyNames[i] = k

\* the keys that may still be added to the contents d: the model's mappings
\* are unordered, so each is built once, its keys added in KeyNames order
Addable(d) == {i \in 1..Len(KeyNames) : \A k \in DOMAIN d : IndexOf(k) < i}

\* the caller fills in the input: agent_data[k] = v, or setattr(agent, k, v)
SetItem ==
    /\ \/ /\ IsDict(input)
          /\ Cardinality(DOMAIN input.d) < MaxKeys
          /\ \E i \in Addable(input.d) : \E v \in ValsOf(KeyNames[i]) :
                input' = Dict((KeyNames[i] :> v) @@ input.d)
       \/ /\ HasFieldDict(input)
          /\ Cardinality(DOMAIN input.attrs) < MaxAttrs
          /\ \E i \in Addable(input.attrs) : \E v \in ValsOf(KeyNames[i]) :
                input' = [input EXCEPT !.attrs = (KeyNames[i] :> v) @@ @]
    /\ call' = NoCall
    /\ UNCHANGED <<email, env, requests>>

\* a call of detect_agent_type(input)
DetectAgentType ==
    /\ call' = MkCall("detect_agent_type", <<>>, detect_agent_type(input), 0)
    /\ UNCHANGED <<input, email, env, requests>>

\* a call of normalize_agent_data(input)
NormalizeAgentData ==
    /\ call' = MkCall("normalize_agent_data", normalize_steps(input),
                       normalize_agent_data(input), 0)
    /\ input' = InputAfterNormalize(input)
    /\ UNCHANGED <<email, env, requests>>

NextDetect == SetItem \/ DetectAgentType \/ NormalizeAgentData

SpecDetect == InitDetect /\ [][NextDetect]_vars

(***************************************************************************)
(* validate_email (astrasync/utils/validator.py)                           *)
(***************************************************************************)
CharsOf(s) == {SubSeq(s, i, i) : i \in 1..Len(s)}
Letters == CharsOf("abcdefghijklmnopqrstuvwxyzABCDEFGHIJKLMNOPQRSTUVWXYZ")
AlphaNum == Letters \cup CharsOf("0123456789")
LocalChars == AlphaNum \cup CharsOf("._%+-")
DomainChars == AlphaNum \cup CharsOf(".-")
MinTld == 2

\* every character of s[i..j] is in cs
AllIn(s, i, j, cs) == \A k \in i..j : SubSeq(s, k, k) \in cs

\* line 21-22: ^[a-zA-Z0-9._%+-]+@[a-zA-Z0-9.-]+\.[a-zA-Z]{2,}$
MatchesEmailPattern(s) ==
    \E at \in 2..Len(s) : \E dot \in (at + 2)..(Len(s) - MinTld) :
        /\ SubSeq(s, at, at) = "@"
        /\ SubSeq(s, dot, dot) = "."
        /\ AllIn(s, 1, at - 1, LocalChars)
        /\ AllIn(s, at + 1, dot - 1, DomainChars)
        /\ AllIn(s, dot + 1, Len(s), Letters)

\* lines 8-22
validate_email(v) ==
    IF ~Truthy(v) \/ ~IsStr(v) THEN FALSE ELSE MatchesEmailPattern(v.s)

(***************************************************************************)
(* APIClient (astrasync/utils/api.py)                                      *)
(* http is what the service answers to the one request of a call:          *)
(*   [kind |-> "error"]                          a RequestException        *)
(*   [kind |-> "response", status, text, json]   an HTTP response          *)
(***************************************************************************)
Created == 201
Ok == 200
NotFound == 404

\* APIError(message, status_code, response_body) of exceptions.py
ApiError(status_code, response_body) ==
    [t |-> "raise", exc |-> "APIError", status_code |-> status_code,
     response_body |-> response_body]

Request(method, path, body) == [method |-> method, path |-> path, json |-> body]

\* ApiRegister taking every 2xx status for success
ApiRegisterAny2xx(payload, http) ==
    [sent |-> <<Request("POST", "/v1/register", payload)>>,
     ret |-> IF http.kind = "error" THEN Raise("RegistrationError")
             ELSE IF http.status \in 200..299 THEN http.json
             ELSE ApiError(Num(http.status), Str(http.text))]

\* lines 20-44: the outcome and the requests sent
ApiRegister(payload, http) ==
    [sent |-> <<Request("POST", "/v1/register", payload)>>,
     ret |-> IF http.kind = "error" THEN Raise("RegistrationError")
             ELSE IF http.status = Created THEN http.json
             ELSE ApiError(Num(http.status), Str(http.text))]

\* lines 46-65: the outcome and the requests sent
ApiVerify(agent_id, http) ==
    [sent |-> <<Request("GET", "/v1/verify/" \o PyStr(agent_id), None)>>,
     ret |-> IF http.kind = "error" THEN ApiError(None, None)
             ELSE IF http.status = Ok THEN http.json
             ELSE IF http.status = NotFound
             THEN Dict([exists |-> Bool(FALSE), agentId |-> agent_id])
             ELSE ApiError(Num(http.status), None)]

(***************************************************************************)
(* AstraSync (astrasync/core.py)                                           *)
(* fs is what lies at the path an input names:                             *)
(*   [kind |-> "missing"], [kind |-> "dir"] or [kind |-> "file", text]     *)
(***************************************************************************)

\* line 15: self.email = email or os.getenv('ASTRASYNC_EMAIL')
ClientEmail(arg, environ) == IF Truthy(arg) THEN arg ELSE environ

NameMax == 255

\* the length of the longest component of a path text
LongestComponent(s) ==
    LET cuts == {0, Len(s) + 1} \cup {i \in 1..Len(s) : SubSeq(s, i, i) = "/"}
        after(p) == CHOOSE q \in cuts : q > p /\ \A r \in cuts : r > p => q <= r
        runs == {after(p) - p - 1 : p \in cuts \ {Len(s) + 1}}
    IN  CHOOSE m \in runs : \A r \in runs : r <= m

\* what stat() finds at a path: Path('') is the current directory; a name
\* longer than NAME_MAX names nothing, and stat() fails on it with
\* ENAMETOOLONG, which Path.exists() passes on or takes for "missing"
\* depending on the Python version that runs the SDK
FsAt(text, fs) ==
    IF text = "" THEN [kind |-> "dir"]
    ELSE IF LongestComponent(text) > NameMax
    THEN (IF fs.kind = "nametoolong" THEN fs ELSE [kind |-> "missing"])
    ELSE (IF fs.kind = "nametoolong" THEN [kind |-> "missing"] ELSE fs)

\* line 63: path.exists()
PathExists(text, fs) ==
    IF FsAt(text, fs).kind = "nametoolong" THEN Raise("OSError")
    ELSE Bool(FsAt(text, fs).kind # "missing")

RECURSIVE Repeat(_, _)
Repeat(c, n) ==
    IF n = 0 THEN ""
    ELSE LET half == Repeat(c, n \div 2)
         IN  half \o half \o (IF n % 2 = 1 THEN c ELSE "")

\* texts one character longer than a file name may be
LongText == Repeat("a", NameMax + 1)
LongJson == "{\"name\": \"" \o LongText \o "\"}"

\* json.loads(text) on the texts tried; any other text is not JSON
JsonLoads(text) ==
    CASE text = "{}" -> EmptyDict
      [] text = "{\"name\": \"X\"}" -> Dict([name |-> Str("X")])
      [] text = "[]" -> EmptyList
      [] text = "5" -> Num(5)
      [] text = LongJson -> Dict([name |-> Str(LongText)])
      [] OTHER -> Raise("JSONDecodeError")

\* lines 64-65: open(path) and json.load(f)
LoadFile(text, fs) ==
    IF FsAt(text, fs).kind = "dir" THEN Raise("IsADirectoryError")
    ELSE JsonLoads(FsAt(text, fs).text)

\* lines 57-72
ParseAgentInput(agent, fs) ==
    IF IsDict(agent) THEN agent
    ELSE IF agent.t \in {"str", "path"}
    THEN LET exists == PathExists(agent.s, fs)
         IN  IF IsRaise(exists) THEN exists
             ELSE IF exists.b THEN LoadFile(agent.s, fs)
             ELSE IF agent.t = "path" THEN Raise("TypeError")
             ELSE IF IsRaise(JsonLoads(agent.s)) THEN Raise("ValidationError")
             ELSE JsonLoads(agent.s)
    ELSE Raise("ValidationError")

\* detector.py line 101: def normalize_agent_data(agent_data)
NormalizeParams == 1

\* a call of normalize_agent_data with the positional arguments args
CallNormalize(args) ==
    IF Len(args) # NormalizeParams THEN Raise("TypeError")
    ELSE normalize_agent_data(args[1])

\* lines 37-49
BuildPayload(em, normalized, agent_type, trust_score) ==
    LET metadata == Get(normalized, "metadata", EmptyDict)
    IN  IF ~IsDict(metadata) THEN Raise("TypeError")
        ELSE Dict([email |-> em,
                   agent |-> Dict(metadata.d @@
                       [name |-> normalized["name"],
                        description |-> normalized["description"],
                        owner |-> normalized["owner"],
                        capabilities |-> Get(normalized, "capabilities", EmptyList),
                        version |-> Get(normalized, "version", Str("1.0.0")),
                        agentType |-> agent_type,
                        trustScore |-> trust_score])])

Outcome(ret, steps, sent) == [ret |-> ret, steps |-> steps, sent |-> sent]

\* line 51: the transport call that ends register
RegisterSend(payload, http, steps) ==
    IF IsRaise(payload) THEN Outcome(payload, steps, <<>>)
    ELSE Outcome(ApiRegister(payload, http).ret, steps \o <<"post">>,
                 ApiRegister(payload, http).sent)

\* lines 35-51, once the email is known
RegisterScored(em, normalized, agent_type, trust_score, http, steps) ==
    IF IsRaise(trust_score) THEN Outcome(trust_score, steps, <<>>)
    ELSE RegisterSend(BuildPayload(em, normalized, agent_type, trust_score),
                      http, steps)

\* line 28: normalized.get('owner_email') or self.email
ContactEmail(normalized, self_email) ==
    IF Truthy(Get(normalized, "owner_email", None))
    THEN normalized["owner_email"] ELSE self_email

\* lines 28-51, from the normalized record on
RegisterNormalized(normalized, agent_type, self_email, http, steps) ==
    IF IsRaise(normalized) THEN Outcome(normalized, steps, <<>>)
    ELSE IF ~Truthy(ContactEmail(normalized.d, self_email))
    THEN Outcome(Raise("ValidationError"), steps, <<>>)
    ELSE RegisterScored(ContactEmail(normalized.d, self_email), normalized.d,
                        agent_type, calculate_trust_score(normalized.d), http,
                        steps \o <<"score">>)

\* the arguments of the call of normalize_agent_data at line 26
NormalizeArgs(agent_data, agent_type) == <<agent_data, agent_type>>

\* lines 26-51, from the detected type on
RegisterDetected(agent_data, agent_type, self_email, http, steps) ==
    IF IsRaise(agent_type) THEN Outcome(agent_type, steps, <<>>)
    ELSE RegisterNormalized(CallNormalize(NormalizeArgs(agent_data, agent_type)),
                            agent_type, self_email, http, steps \o <<"normalize">>)

\* lines 25-51, from the parsed input on
RegisterParsed(agent_data, self_email, http, steps) ==
    IF IsRaise(agent_data) THEN Outcome(agent_data, steps, <<>>)
    ELSE RegisterDetected(agent_data, detect_agent_type(agent_data), self_email,
                          http, steps \o <<"detect">>)

\* lines 22-51: AstraSync.register(agent) of a client whose email is self_email
register(agent, self_email, fs, http) ==
    RegisterParsed(ParseAgentInput(agent, fs), self_email, http, <<"parse">>)

\* lines 53-55: AstraSync.verify(agent_id)
verify(agent_id, http) ==
    LET r == ApiVerify(agent_id, http)
    IN  Outcome(r.ret, <<"get">>, r.sent)

(***************************************************************************)
(* The registration client and its transport: specification                *)
(***************************************************************************)
MaxRequests == 2

\* what callers hand to AstraSync.register
RegisterInputs ==
    {EmptyDict,
     Dict([name |-> Str("X")]),
     Dict([protocol |-> Str("ai-agent"), name |-> Str("X"),
           skills |-> List(<<Dict([name |-> Str("search")])>>)]),
     Dict([name |-> Str("X"), llm |-> Str("gpt-4"), tools |-> List(<<Str("search")>>)]),
     Dict([ai_name |-> Str("Bot"), ai_role |-> Str("Helper"),
           ai_goals |-> List(<<Str("a"), Str("b")>>)]),
     Dict([name |-> Str("X"), description |-> Str("A test agent"),
           owner |-> Str("Acme"), version |-> Str("2.0"),
           capabilities |-> List(<<Str("chat")>>)]),
     Str("{\"name\": \"X\"}"), Str("{}"), Str("[]"), Str("not json"),
     Str("agent.json"), Str("configs/agent.json"), Str(""),
     Str(LongText), Str(LongJson),
     Path("agent.json"),
     Num(5), None, List(<<Str("X")>>)}

\* the email argument of the constructor, and ASTRASYNC_EMAIL
EmailArgs == {None, Str(""), Str("dev@example.com"), Str("not-an-email")}
EnvironEmails == {None, Str("env@example.com")}

FsAnswers ==
    {[kind |-> "missing"], [kind |-> "nametoolong"], [kind |-> "dir"],
     [kind |-> "file", text |-> "{\"name\": \"X\"}"],
     [kind |-> "file", text |-> "not json"]}

Statuses == {200, 201, 204, 404, 500}

\* the service answers 201 and 200 with a JSON mapping, errors with a text
Response(status) ==
    [kind |-> "response", status |-> status,
     text |-> IF status \in {200, 201} THEN "{\"agentId\": \"TEMP-1\"}"
              ELSE "rejected",
     json |-> IF status \in {200, 201}
              THEN Dict([agentId |-> Str("TEMP-1"), status |-> Str("registered"),
                         trustScore |-> Str("TEMP-85%")])
              ELSE Raise("JSONDecodeError")]

HttpAnswers == {[kind |-> "error"]} \cup {Response(st) : st \in Statuses}

Payloads ==
    {Dict([email |-> Str("dev@example.com"),
           agent |-> Dict([name |-> Str("X"), owner |-> Str("Acme")])]),
     EmptyDict}

AgentIds == {Str("TEMP-1"), Str("ASTRAS-2")}

Init ==
    /\ input \in RegisterInputs
    /\ \E arg \in EmailArgs, environ \in EnvironEmails :
            email = ClientEmail(arg, environ)
    /\ env = NoEnv
    /\ call = NoCall
    /\ requests = <<>>

Asked(steps, s) == \E i \in 1..Len(steps) : steps[i] = s

\* the answers a call of register(input) can get: the file system is asked
\* only about a text or a path, the service only when a request is sent
FsAsked(agent) ==
    IF agent.t \in {"str", "path"} THEN {FsAt(agent.s, fs) : fs \in FsAnswers}
    ELSE {NoAnswer}
HttpAsked(agent, self_email, fs) ==
    IF Asked(register(agent, self_email, fs, [kind |-> "error"]).steps, "post")
    THEN HttpAnswers ELSE {NoAnswer}

\* client.register(input)
Register ==
    /\ Len(requests) < MaxRequests
    /\ \E fs \in FsAsked(input) : \E http \in HttpAsked(input, email, fs) :
        LET out == register(input, email, fs, http)
        IN  /\ call' = MkCall("register", out.steps, out.ret, Len(out.sent))
            /\ requests' = requests \o out.sent
            /\ env' = [fs |-> fs, http |-> http]
            /\ UNCHANGED <<input, email>>

\* client.api_client.register(payload)
ApiRegisterCall ==
    /\ Len(requests) < MaxRequests
    /\ \E payload \in Payloads, http \in HttpAnswers :
        LET out == ApiRegister(payload, http)
        IN  /\ call' = MkCall("api.register", <<"post">>, out.ret, Len(out.sent))
            /\ requests' = requests \o out.sent
            /\ env' = [fs |-> NoAnswer, http |-> http]
            /\ UNCHANGED <<input, email>>

\* client.verify(agent_id)
Verify ==
    /\ Len(requests) < MaxRequests
    /\ \E agent_id \in AgentIds, http \in HttpAnswers :
        LET out == verify(agent_id, http)
        IN  /\ call' = MkCall("verify", out.steps, out.ret, Len(out.sent))
            /\ requests' = requests \o out.sent
            /\ env' = [fs |-> NoAnswer, http |-> http]
            /\ UNCHANGED <<input, email>>

Next == Register \/ ApiRegisterCall \/ Verify

Spec == Init /\ [][Next]_vars

(***************************************************************************)
(* Detection and normalization: properties                                 *)
(***************************************************************************)

\* the input satisfies none of the detector's structural predicates
MatchesNoPredicate(v) ==
    LET none(d) ==
            /\ ~(Has(d, "input_schema") /\ Has(d, "output_schema"))
            /\ AdkAgentTypeRule(d) = NoMatch
            /\ AdkConfigRule(d) = NoMatch
            /\ McpProtocolRule(d) = NoMatch
            /\ McpSkillsRule(d) = NoMatch
            /\ LangchainRule(d) = NoMatch
            /\ LettaMemoryRule(d) = NoMatch
            /\ LettaTypeRule(d) = NoMatch
            /\ ~(Has(d, "agentId") /\ Has(d, "authentication"))
            /\ OpenaiRule(d) = NoMatch
            /\ ~(\A k \in {"ai_name", "ai_role", "ai_goals"} : Has(d, k))
            /\ AgentforceRule(d) = NoMatch
    IN  IF IsDict(v) THEN none(v.d)
        ELSE /\ ObjectRule(v) = NoMatch
             /\ HasFieldDict(v) => none(v.attrs)

\* C1: normalize_agent_data returns, for every input and every detected type,
\* a record whose name, description and owner are all non-empty, and the
\* final validation pass runs whichever type-specific branch executed.
C1_NormalizeNonEmpty ==
    call.op = "normalize_agent_data" =>
        /\ IsDict(call.ret)
        /\ \A f \in {"name", "description", "owner"} :
                Has(call.ret.d, f) /\ Truthy(call.ret.d[f])
        /\ \E i \in 1..Len(call.steps) : call.steps[i] = "postpass"

\* C2: detect_agent_type never raises for a mapping or an object, and every
\* input that matches none of the structural predicates, an object with no
\* field dictionary included, gets the one catch-all tag.
C2_DetectTotal ==
    call.op = "detect_agent_type" =>
        /\ ~IsRaise(call.ret)
        /\ IsStr(call.ret)
        /\ MatchesNoPredicate(input) => call.ret = Str("unknown")

\* C2's case: an object without a field dictionary, matching no class or
\* module pattern, has been classified
C2_Witness ==
    /\ call.op = "detect_agent_type"
    /\ input.t = "obj" /\ ~input.hasdict
    /\ ObjectRule(input) = NoMatch
    /\ call.ret = Str("unknown")

(***************************************************************************)
(* The trust scorer: specification                                         *)
(***************************************************************************)
MaxDescription == 150
MaxCapabilities == 5

NameValues == {Str(""), Str("Unnamed Agent"), Str("Unnamed MCP Agent"), Str("Support Bot")}
VersionValues == {Str(""), Str("1.0.0")}

InitScore ==
    /\ input = EmptyDict
    /\ email = None
    /\ env = NoEnv
    /\ call = NoCall
    /\ requests = <<>>

\* the record after record[k] = v
SetField(k, v) == Dict((k :> v) @@ input.d)

SetName ==
    /\ \E v \in NameValues : input' = SetField("name", v)
    /\ call' = NoCall
    /\ UNCHANGED <<email, env, requests>>

SetVersion ==
    /\ \E v \in VersionValues : input' = SetField("version", v)
    /\ call' = NoCall
    /\ UNCHANGED <<email, env, requests>>

\* the description grows by one character
ExtendDescription ==
    /\ Has(input.d, "description") => Len(input.d["description"].s) < MaxDescription
    /\ input' = IF ~Has(input.d, "description") THEN SetField("description", Str(""))
                ELSE SetField("description", Str(input.d["description"].s \o "d"))
    /\ call' = NoCall
    /\ UNCHANGED <<email, env, requests>>

\* the capabilities grow by one entry
AddCapability ==
    /\ Has(input.d, "capabilities") => Len(input.d["capabilities"].l) < MaxCapabilities
    /\ input' = IF ~Has(input.d, "capabilities") THEN SetField("capabilities", EmptyList)
                ELSE SetField("capabilities",
                              List(Append(input.d["capabilities"].l, Str("cap"))))
    /\ call' = NoCall
    /\ UNCHANGED <<email, env, requests>>

\* a call of calculate_trust_score(input)
Score ==
    /\ call' = MkCall("calculate_trust_score", <<>>, calculate_trust_score(input.d), 0)
    /\ UNCHANGED <<input, email, env, requests>>

NextScore == SetName \/ SetVersion \/ ExtendDescription \/ AddCapability \/ Score

SpecScore == InitScore /\ [][NextScore]_vars

(***************************************************************************)
(* Registration, transport and scoring: properties                         *)
(***************************************************************************)

\* the last request sent
LastRequest == requests[Len(requests)]

\* C3: for a mapping input and a client with an email, register runs
\* detection, normalization, trust scoring and then exactly one transport
\* call whose payload carries the normalized fields, the detected type and
\* the score, and returns the transport's response; it does not fail before
\* the transport call.
C3_RegisterPipeline ==
    (call.op = "register" /\ IsDict(input) /\ Truthy(email)) =>
        /\ call.steps = <<"parse", "detect", "normalize", "score", "post">>
        /\ call.sent = 1
        /\ LET n == normalize_agent_data(input).d
               agent == LastRequest.json.d["agent"].d
           IN  /\ \A f \in {"name", "description", "owner", "capabilities", "version"} :
                        agent[f] = n[f]
               /\ agent["agentType"] = detect_agent_type(input)
               /\ agent["trustScore"] = calculate_trust_score(n)
        /\ call.ret = ApiRegister(LastRequest.json, env.http).ret

\* C4: APIClient.register takes exactly status 201 for success and returns
\* the response body; every other status, 200 and the other 2xx included, is
\* an APIError carrying the status code and the body, never a result.
C4_OnlyCreatedSucceeds ==
    (call.op = "api.register" /\ env.http.kind = "response") =>
        IF env.http.status = Created
        THEN call.ret = env.http.json
        ELSE call.ret = ApiError(Num(env.http.status), Str(env.http.text))

\* C4's case: a 2xx status other than 201 was answered and refused
C4_Witness ==
    /\ call.op = "api.register"
    /\ env.http.kind = "response" /\ env.http.status \in {200, 204}
    /\ IsRaise(call.ret) /\ call.ret.exc = "APIError"

\* the error kind an operation raises for a non-success HTTP response
RejectionKind(op) ==
    IF op = "verify" THEN verify(Str("TEMP-1"), Response(500)).ret.exc
    ELSE ApiRegister(EmptyDict, Response(500)).ret.exc

\* C5: for APIClient.register and APIClient.verify, a network failure is
\* raised as an error kind distinct from the one raised for a non-success
\* response, each call issues exactly one request, and the error reaches
\* the caller.
C5_DistinctErrorKinds ==
    call.op \in {"api.register", "verify"} =>
        /\ call.sent = 1
        /\ env.http.kind = "error" =>
                IsRaise(call.ret) /\ call.ret.exc # RejectionKind(call.op)
        /\ (env.http.kind = "response" /\ env.http.status = 500) =>
                IsRaise(call.ret)

\* C6: calculate_trust_score returns an integer in [0, 95] for every record
C6_ScoreInRange ==
    call.op = "calculate_trust_score" =>
        /\ call.ret.t = "int"
        /\ 0 <= call.ret.i /\ call.ret.i <= 95

\* C6's case: a record that earns every bonus, 100 before the cap
C6_Witness ==
    /\ call.op = "calculate_trust_score"
    /\ \A k \in {"name", "description", "capabilities", "version"} : Has(input.d, k)
    /\ input.d["name"] = Str("Support Bot")
    /\ Len(input.d["description"].s) > 100
    /\ Len(input.d["capabilities"].l) > 3
    /\ Truthy(input.d["version"])
    /\ call.ret = Num(95)

\* the names the normalizer puts in when the input has none
\* (detector.py lines 131, 137, 149, 161, 167, 192, 205, 212)
IsPlaceholder(name) ==
    \/ name \in {"Unnamed MCP Agent", "Unnamed Letta Agent", "Unnamed OpenAI Assistant",
                 "Unnamed AutoGPT Agent", "Unnamed ADK Agent",
                 "Unnamed Agentforce Agent", "Unnamed Agent"}
    \/ (Len(name) > 14 /\ SubSeq(name, 1, 8) = "Unnamed "
        /\ SubSeq(name, Len(name) - 5, Len(name)) = " Agent")

Ind(b) == IF b THEN 1 ELSE 0

\* C7: the score is min(95, 70 + 5*[name present and not a placeholder]
\* + 5*[len(description) > 50] + 5*[len(description) > 100]
\* + 5*[capabilities non-empty] + 5*[len(capabilities) > 3]
\* + 5*[version non-empty]); a record with a 150-character description, 5
\* capabilities, a version and a non-placeholder name scores exactly 95.
C7_ScoreFormula ==
    call.op = "calculate_trust_score" =>
        LET r == input.d
            name == Get(r, "name", Str(""))
            dlen == Len(Get(r, "description", Str("")).s)
            clen == Len(Get(r, "capabilities", EmptyList).l)
        IN  /\ call.ret =
                Num(Min(95, 70 + 5 * Ind(Truthy(name) /\ ~IsPlaceholder(name.s))
                               + 5 * Ind(dlen > 50) + 5 * Ind(dlen > 100)
                               + 5 * Ind(clen > 0) + 5 * Ind(clen > 3)
                               + 5 * Ind(Truthy(Get(r, "version", Str(""))))))
            /\ (dlen = 150 /\ clen = 5 /\ Truthy(Get(r, "version", Str("")))
                /\ Truthy(name) /\ ~IsPlaceholder(name.s)) => call.ret = Num(95)

\* the record r with its description cut to the first n characters
WithDescription(r, n) ==
    [r EXCEPT !["description"] = Str(SubSeq(r["description"].s, 1, n))]

\* C8: with the other fields fixed, the score never decreases as the
\* description gets longer
C8_MonotoneInDescription ==
    (call.op = "calculate_trust_score" /\ Has(input.d, "description")) =>
        \A n \in 0..Len(input.d["description"].s) :
            calculate_trust_score(WithDescription(input.d, n)).i <= call.ret.i

\* C8's case: a description past both thresholds has been scored
C8_Witness ==
    /\ call.op = "calculate_trust_score"
    /\ Has(input.d, "description")
    /\ Len(input.d["description"].s) > 100
    /\ call.ret.i > calculate_trust_score(WithDescription(input.d, 50)).i

\* C9: register signals a validation failure, and makes no transport call,
\* whenever the contact email is missing or fails validate_email
C9_EmailValidated ==
    (call.op = "register" /\ IsDict(input) /\ ~validate_email(email)) =>
        /\ call.ret = Raise("ValidationError")
        /\ call.sent = 0

\* the text names something that exists in the file system
NamesExistingPath(text, fs) == FsAt(text, fs).kind \in {"file", "dir"}

\* C10: register raises ValidationError, without detection or transport
\* call, for a string that is neither an existing path nor parseable JSON
\* and for an input that is no mapping, string or path; a mapping goes to
\* detection unchanged.
C10_InvalidInputRejected ==
    call.op = "register" =>
        /\ (\/ /\ input.t = "str"
               /\ ~NamesExistingPath(input.s, env.fs)
               /\ IsRaise(JsonLoads(input.s))
            \/ input.t \notin {"dict", "str", "path"}) =>
                /\ call.ret = Raise("ValidationError")
                /\ call.steps = <<"parse">>
                /\ call.sent = 0
        /\ IsDict(input) =>
                /\ Asked(call.steps, "detect")
                /\ ParseAgentInput(input, env.fs) = input

(***************************************************************************)
(* Detection and normalization: scenarios and frame properties             *)
(***************************************************************************)

\* C11: every mapping that has both the input_schema and the output_schema
\* key is detected as google-adk, whatever other fields it has.
C11_SchemasWin ==
    (/\ call.op = "detect_agent_type"
     /\ IsDict(input)
     /\ Has(input.d, "input_schema") /\ Has(input.d, "output_schema")) =>
        call.ret = Str("google-adk")

\* C11's case: a mapping with both schemas and a field of another protocol
C11_Witness ==
    /\ call.op = "detect_agent_type"
    /\ IsDict(input)
    /\ Has(input.d, "input_schema") /\ Has(input.d, "output_schema")
    /\ \E k \in {"protocol", "skills", "llm", "memory", "agentId", "model",
                 "ai_name", "agent_type"} : Has(input.d, k)
    /\ McpProtocolRule(input.d) # NoMatch \/ McpSkillsRule(input.d) # NoMatch
    /\ call.ret = Str("google-adk")

\* the mapping has none of the Google ADK markers of lines 42-52
NoAdkMarker(d) ==
    /\ AdkSchemaRule(d) = NoMatch
    /\ AdkAgentTypeRule(d) = NoMatch
    /\ AdkConfigRule(d) = NoMatch

\* protocol == "ai-agent" and skills a list of mappings that each have a name
McpWithNamedSkills(v) ==
    /\ IsDict(v)
    /\ Has(v.d, "protocol") /\ v.d["protocol"] = Str("ai-agent")
    /\ Has(v.d, "skills") /\ IsList(v.d["skills"])
    /\ \A i \in 1..Len(v.d["skills"].l) : NamedSkill(v.d["skills"].l[i]) = Bool(TRUE)
    /\ NoAdkMarker(v.d)

AutogptOnly(v) ==
    /\ IsDict(v)
    /\ \A k \in {"ai_name", "ai_role", "ai_goals"} : Has(v.d, k)
    /\ \A r \in {AdkSchemaRule(v.d), AdkAgentTypeRule(v.d), AdkConfigRule(v.d),
                 McpProtocolRule(v.d), McpSkillsRule(v.d), LangchainRule(v.d),
                 LettaMemoryRule(v.d), LettaTypeRule(v.d), AcpRule(v.d),
                 OpenaiRule(v.d)} : r = NoMatch

\* C13 as stated: such a mapping is detected as autogpt, and its normalized
\* name equals ai_name and its description equals ai_role.
C13_AutogptAsStated ==
    AutogptOnly(input) =>
        /\ call.op = "detect_agent_type" => call.ret = Str("autogpt")
        /\ call.op = "normalize_agent_data" =>
            /\ IsDict(call.ret)
            /\ call.ret.d["name"] = input.d["ai_name"]
            /\ call.ret.d["description"] = input.d["ai_role"]

\* C13, amended: such a mapping is detected as autogpt; its normalized name
\* equals ai_name when ai_name is non-empty and is "Unnamed autogpt Agent"
\* otherwise, and its description equals ai_role when ai_role is non-empty
\* and is "A autogpt agent" otherwise.
C13_AutogptScenario ==
    AutogptOnly(input) =>
        /\ call.op = "detect_agent_type" => call.ret = Str("autogpt")
        /\ call.op = "normalize_agent_data" =>
            /\ IsDict(call.ret)
            /\ call.ret.d["name"] =
                    IF Truthy(input.d["ai_name"]) THEN input.d["ai_name"]
                    ELSE Str("Unnamed autogpt Agent")
            /\ call.ret.d["description"] =
                    IF Truthy(input.d["ai_role"]) THEN input.d["ai_role"]
                    ELSE Str("A autogpt agent")

\* C13's case: Scenario B has been normalized
C13_Witness ==
    /\ call.op = "normalize_agent_data"
    /\ input = Dict([ai_name |-> Str("Bot"), ai_role |-> Str("Helper"),
                     ai_goals |-> List(<<Str("a"), Str("b")>>)])
    /\ call.ret.d["name"] = Str("Bot")
    /\ call.ret.d["description"] = Str("Helper")
    /\ call.ret.d["agentType"] = Str("autogpt")

\* text.startswith(prefix)
StartsWith(text, prefix) ==
    Len(text) >= Len(prefix) /\ SubSeq(text, 1, Len(prefix)) = prefix

\* what C14 says of the empty mapping, for a given catch-all tag
EmptyMappingScenario(tag) ==
    input = EmptyDict =>
        /\ call.op = "detect_agent_type" => call.ret = Str(tag)
        /\ call.op = "normalize_agent_data" =>
            /\ IsDict(call.ret)
            /\ call.ret.d["agentType"] = Str(tag)
            /\ call.ret.d["owner"] = Str("Unknown")
            /\ IsStr(call.ret.d["name"])
            /\ StartsWith(call.ret.d["name"].s, "Unnamed")

\* C14 as stated: for the empty mapping the detected type is the tag
\* "generic", the normalized owner is "Unknown" and the name starts with
\* "Unnamed".
C14_EmptyAsStated == EmptyMappingScenario("generic")

\* C14, amended: for the empty mapping the detected type is the tag
\* "unknown", the normalized owner is "Unknown" and the name starts with
\* "Unnamed".
C14_EmptyMapping == EmptyMappingScenario("unknown")

\* C14's case: the empty mapping has been normalized
C14_Witness ==
    /\ call.op = "normalize_agent_data"
    /\ input = EmptyDict
    /\ call.ret.d["name"] = Str("Unnamed Agent")
    /\ call.ret.d["owner"] = Str("Unknown")

\* C15: detect_agent_type and normalize_agent_data leave their input
\* unchanged: after either call the input has the keys and values, nested
\* lists included, that it had before.
C15_InputUnchanged ==
    [][call'.op \in {"detect_agent_type", "normalize_agent_data"} => input' = input]_vars

\* C15's case: a Google ADK input with a tools list has been normalized, and
\* the branch has appended to the capabilities in place
C15_Witness ==
    /\ call.op = "normalize_agent_data"
    /\ IsDict(input) /\ IsDict(call.ret)
    /\ Has(input.d, "tools") /\ IsList(input.d["tools"])
    /\ call.ret.d["agentType"] = Str("google-adk")
    /\ Len(call.ret.d["capabilities"].l) > Len(input.d["tools"].l)

OwnerSources == {"owner", "developer", "creator", "organization", "user", "created_by"}

\* the input supplies a value under none of the owner keys
SuppliesNoOwner(v) == \A k \in OwnerSources : ~Has(MappingView(v), k)

\* C17 as stated: for every detected type, an input that supplies no owner
\* and no type-specific owner source is given the owner "Unknown".
C17_OwnerAsStated ==
    (call.op = "normalize_agent_data" /\ IsDict(call.ret) /\ SuppliesNoOwner(input)) =>
        call.ret.d["owner"] = Str("Unknown")

\* C17, amended: an input that supplies no owner and no type-specific owner
\* source is given the owner "ADK Developer" when detected as google-adk,
\* "Salesforce Org" when detected as agentforce, and "Unknown" for every
\* other detected type.
C17_OwnerDefault ==
    (call.op = "normalize_agent_data" /\ IsDict(call.ret) /\ SuppliesNoOwner(input)) =>
        call.ret.d["owner"] =
            CASE call.ret.d["agentType"] = Str("google-adk") -> Str("ADK Developer")
              [] call.ret.d["agentType"] = Str("agentforce") -> Str("Salesforce Org")
              [] OTHER -> Str("Unknown")

\* C17's case: an input of a detected type other than the catch-all, with no
\* owner source, has been normalized to the owner "Unknown"
C17_Witness ==
    /\ call.op = "normalize_agent_data"
    /\ IsDict(call.ret)
    /\ SuppliesNoOwner(input)
    /\ call.ret.d["agentType"] \in {Str("mcp"), Str("letta"), Str("acp"),
                                    Str("openai"), Str("autogpt")}
    /\ call.ret.d["owner"] = Str("Unknown")

(***************************************************************************)
(* Trust score, normalizer errors and the decorator: properties            *)
(***************************************************************************)

\* the record r without its name
WithoutName(r) == [k \in DOMAIN r \ {"name"} |-> r[k]]

\* C18: the +5 name bonus is awarded only when the name is present and is
\* not a placeholder default: a record whose name is one of the placeholders
\* the normalizer synthesizes ("Unnamed MCP Agent", "Unnamed Agent", ...)
\* scores what it would score without a name, and a record with an empty
\* name likewise.
C18_NoBonusForPlaceholder ==
    (/\ call.op = "calculate_trust_score"
     /\ Has(input.d, "name")
     /\ ~Truthy(input.d["name"]) \/ IsPlaceholder(input.d["name"].s)) =>
        call.ret = calculate_trust_score(WithoutName(input.d))

\* C19: normalize_agent_data never raises for a mapping input: whatever the
\* values under the recognized keys, it returns a record.
C19_NormalizeTotal ==
    (call.op = "normalize_agent_data" /\ IsDict(input)) =>
        /\ ~IsRaise(call.ret)
        /\ IsDict(call.ret)

(***************************************************************************)
(* The register decorator (astrasync/decorators.py)                        *)
(***************************************************************************)

\* a function or class object as the decorator receives it
Function(name, doc) ==
    Obj("function", "__main__", TRUE,
        [__name__ |-> Str(name), __qualname__ |-> Str(name),
         __module__ |-> Str("__main__"), __doc__ |-> doc])

\* register(email, name, description, auto_register)(func_or_class)
DecoratorCall(em, name, description, auto_register, func) ==
    [t |-> "decorated", email |-> em, name |-> name, description |-> description,
     auto_register |-> auto_register, func |-> func]

\* a or b
PyOr(a, b) == IF Truthy(a) THEN a ELSE b

\* lines 17-33
DecoratorAgentData(c) ==
    LET agent_name == PyOr(c.name, c.func.attrs["__name__"])
        fallback == Str("Auto-registered " \o c.func.attrs["__name__"].s)
    IN  Dict([name |-> agent_name,
              description |-> PyOr(c.description, PyOr(c.func.attrs["__doc__"], fallback)),
              owner |-> PyOr(c.email, Str("decorator")),
              agentType |-> Str("python-decorated"),
              capabilities |-> List(<<Str("function-based")>>),
              metadata |-> Dict([module |-> c.func.attrs["__module__"],
                                 qualname |-> c.func.attrs["__qualname__"]])])

\* the encodings sys.stdout may have
StdoutEncodings == {"utf-8", "ascii"}

\* lines 43 and 45: print() of a message that starts with a character
\* outside ASCII
PrintMessage(stdout) ==
    IF stdout = "utf-8" THEN None ELSE Raise("UnicodeEncodeError")

\* func_or_class with the attributes attrs set
SetAttrs(func, attrs) == [func EXCEPT !.attrs = attrs @@ @]

\* lines 44-46, then line 48: the handler prints and marks the object
DecoratorHandler(func, stdout, steps, sent) ==
    IF IsRaise(PrintMessage(stdout))
    THEN Outcome(PrintMessage(stdout), Append(steps, "handler"), sent)
    ELSE Outcome(SetAttrs(func, [_astrasync_registered |-> Bool(FALSE)]),
                 Append(steps, "handler"), sent)

\* lines 40-43, then line 48, once client.register has returned result
DecoratorRegistered(func, result, stdout, steps, sent) ==
    LET agent_id == IF ~IsDict(result) THEN Raise("TypeError")
                    ELSE IF ~Has(result.d, "agentId") THEN Raise("KeyError")
                    ELSE result.d["agentId"]
        marked == SetAttrs(func, [_astrasync_id |-> agent_id,
                                  _astrasync_registered |-> Bool(TRUE)])
    IN  IF IsRaise(agent_id) THEN DecoratorHandler(func, stdout, steps, sent)
        ELSE IF IsRaise(PrintMessage(stdout))
        THEN DecoratorHandler(marked, stdout, steps, sent)
        ELSE Outcome(marked, steps, sent)

\* lines 16-48: decorator(func_or_class), its arguments and those of
\* register() in c
decorator(c, environ, http, stdout) ==
    IF ~c.auto_register THEN Outcome(c.func, <<>>, <<>>)
    ELSE LET out == register(DecoratorAgentData(c), ClientEmail(c.email, environ),
                             NoAnswer, http)
         IN  IF IsRaise(out.ret)
             THEN DecoratorHandler(c.func, stdout, <<"register", "raised">>, out.sent)
             ELSE DecoratorRegistered(c.func, out.ret, stdout,
                                      <<"register", "returned">>, out.sent)

\* the decorations tried
DecoratorCalls ==
    {DecoratorCall(em, name, description, auto, Function("agent", doc)) :
        em \in EmailArgs, name \in {None, Str("Support Bot")},
        description \in {None, Str("Handles support")},
        auto \in BOOLEAN, doc \in {None, Str("An AI agent.")}}

InitDecorator ==
    /\ input \in DecoratorCalls
    /\ email = None
    /\ env = NoEnv
    /\ call = NoCall
    /\ requests = <<>>

\* @register(...) applied to a function at import time
Decorate ==
    /\ call.op = "none"
    /\ \E environ \in EnvironEmails, stdout \in StdoutEncodings :
        \E http \in HttpAsked(DecoratorAgentData(input),
                              ClientEmail(input.email, environ), NoAnswer) :
            \E out \in {decorator(input, environ, http, stdout)} :
                /\ call' = MkCall("decorator", out.steps, out.ret, Len(out.sent))
                /\ requests' = requests \o out.sent
                /\ email' = ClientEmail(input.email, environ)
                /\ env' = [fs |-> NoAnswer, http |-> http, stdout |-> stdout]
                /\ UNCHANGED input

NextDecorator == Decorate

SpecDecorator == InitDecorator /\ [][NextDecorator]_vars

\* C20: the register decorator with auto_register=True never propagates a
\* registration failure and always returns the original function or class;
\* afterwards _astrasync_registered is True if and only if the client's
\* register call returned, and _astrasync_id is set if and only if
\* _astrasync_registered is True. With auto_register=False no client call
\* is made.
C20_DecoratorNeverRaises ==
    call.op = "decorator" =>
        /\ ~IsRaise(call.ret)
        /\ call.ret.t = "obj"
        /\ \A k \in DOMAIN input.func.attrs : call.ret.attrs[k] = input.func.attrs[k]
        /\ input.auto_register =>
            /\ (Get(call.ret.attrs, "_astrasync_registered", None) = Bool(TRUE))
                    <=> Asked(call.steps, "returned")
            /\ Has(call.ret.attrs, "_astrasync_id")
                    <=> (Get(call.ret.attrs, "_astrasync_registered", None) = Bool(TRUE))
        /\ ~input.auto_register => (call.steps = <<>> /\ call.sent = 0)

(***************************************************************************)
(* Detection: further properties                                           *)
(***************************************************************************)

\* the value is a mapping that names a Google ADK agent class
NamesAdkClass(config) ==
    /\ IsDict(config)
    /\ \E k \in DOMAIN config.d :
            IsStr(config.d[k]) /\ Contains(config.d[k].s, "google.adk")

\* C21: a mapping whose only Google ADK marker is a serialized config
\* mapping that names an ADK agent class is detected as google-adk.
C21_SerializedConfigIsAdk ==
    (/\ call.op = "detect_agent_type"
     /\ IsDict(input)
     /\ Has(input.d, "config") /\ NamesAdkClass(input.d["config"])
     /\ AdkSchemaRule(input.d) = NoMatch
     /\ AdkAgentTypeRule(input.d) = NoMatch) =>
        call.ret = Str("google-adk")

\* a mapping with llm and tools or memory, without a conflicting agent_type
\* and without a google-adk or mcp marker
LangchainShaped(v) ==
    /\ IsDict(v)
    /\ Has(v.d, "llm")
    /\ Has(v.d, "tools") \/ Has(v.d, "memory")
    /\ Has(v.d, "agent_type") =>
            v.d["agent_type"] \notin
                {Str(x) : x \in {"External", "llm", "sequential", "parallel", "loop"}}
    /\ NoAdkMarker(v.d)
    /\ McpProtocolRule(v.d) = NoMatch /\ McpSkillsRule(v.d) = NoMatch

C23_FrameworkObjects ==
    (call.op = "detect_agent_type" /\ input.t = "obj") =>
        \A tag \in {"crewai", "autogen"} :
            Contains(Lower(ModuleName(input)), tag) => call.ret = Str(tag)

\* protocol == "ai-agent"
ProtocolTagged(d) == Has(d, "protocol") /\ d["protocol"] = Str("ai-agent")

\* skills is a list whose entries are all named mappings
NamedSkillList(d) ==
    /\ Has(d, "skills") /\ IsList(d["skills"])
    /\ \A i \in 1..Len(d["skills"].l) : NamedSkill(d["skills"].l[i]) = Bool(TRUE)

\* C24: among mappings that match no google-adk predicate, the result is
\* mcp if and only if protocol == "ai-agent" and skills is a list whose
\* entries are all named mappings.
C24_McpNeedsBoth ==
    (call.op = "detect_agent_type" /\ IsDict(input) /\ NoAdkMarker(input.d)) =>
        (call.ret = Str("mcp")
            <=> (ProtocolTagged(input.d) /\ NamedSkillList(input.d)))

(***************************************************************************)
(* The Agentforce adapter (astrasync/adapters/agentforce.py)               *)
(***************************************************************************)

\* a bound method of an object, and what a call of it returns or raises
Method(ret) == [t |-> "method", ret |-> ret]

\* hasattr(v, name), for the attribute names the adapter asks for: the
\* built-in values have none of them
HasAttr(v, name) == v.t = "obj" /\ Has(v.attrs, name)

\* getattr(v, name, default)
GetAttr(v, name, default) == IF HasAttr(v, name) THEN v.attrs[name] ELSE default

\* v.name()
CallAttr(v, name) ==
    IF v.attrs[name].t = "method" THEN v.attrs[name].ret ELSE Raise("TypeError")

\* json.loads(text) of the value a to_json() call produced
JsonLoadsValue(text) ==
    IF IsRaise(text) THEN text
    ELSE IF ~IsStr(text) THEN Raise("TypeError")
    ELSE JsonLoads(text.s)

\* lines 19-26: which of the four branches takes the input
AgentforceSource(agentforce_data) ==
    IF HasAttr(agentforce_data, "to_dict") THEN "to_dict"
    ELSE IF HasAttr(agentforce_data, "to_json") THEN "to_json"
    ELSE IF IsDict(agentforce_data) THEN "dict"
    ELSE "raw"

\* lines 19-26: data
AgentforceData(agentforce_data) ==
    CASE AgentforceSource(agentforce_data) = "to_dict" ->
            CallAttr(agentforce_data, "to_dict")
      [] AgentforceSource(agentforce_data) = "to_json" ->
            JsonLoadsValue(CallAttr(agentforce_data, "to_json"))
      [] AgentforceSource(agentforce_data) = "dict" -> agentforce_data
      [] OTHER -> Dict([raw |-> Str(PyStr(agentforce_data))])

\* lines 52-53
TopicCaps(d) ==
    IF ~Truthy(Get(d, "topics", None)) THEN EmptyList
    ELSE LET it == Iterate(Get(d, "topics", EmptyList))
         IN  IF IsRaise(it) THEN it
             ELSE List([i \in 1..Len(it.l) |-> Str("topic:" \o PyStr(it.l[i]))])

\* lines 58-61
ActionCap(action) ==
    Str("action:" \o PyStr(IF IsDict(action)
                           THEN Get(action.d, "name", Str("unknown"))
                           ELSE action))

\* lines 56-61
ActionCaps(d) ==
    IF ~Truthy(Get(d, "actions", None)) THEN EmptyList
    ELSE LET it == Iterate(Get(d, "actions", EmptyList))
         IN  IF IsRaise(it) THEN it
             ELSE List([i \in 1..Len(it.l) |-> ActionCap(it.l[i])])

\* lines 64-65 and 68-69
FieldCap(d, key, prefix) ==
    IF Truthy(Get(d, key, None)) THEN <<Str(prefix \o PyStr(d[key]))>> ELSE <<>>

\* lines 49-69: capabilities
AgentforceCapabilities(d) ==
    IF IsRaise(TopicCaps(d)) THEN TopicCaps(d)
    ELSE IF IsRaise(ActionCaps(d)) THEN ActionCaps(d)
    ELSE List(TopicCaps(d).l \o ActionCaps(d).l
              \o FieldCap(d, "domain", "domain:")
              \o FieldCap(d, "agent_template_type", "template:"))

\* lines 29-46 and 71: normalized, before its trust score is set
AgentforceRecord(d, capabilities) ==
    Dict([name |-> Get(d, "name", Str("Unnamed Agentforce Agent")),
          description |-> Get(d, "description", Str("")),
          owner |-> Get(d, "company_name", Str("Unknown")),
          version |-> Str("1.0"),
          agentType |-> Str("agentforce"),
          capabilities |-> capabilities,
          metadata |->
            Dict([platform |-> Str("salesforce"),
                  agent_type |-> Get(d, "agent_type", Str("External")),
                  template_type |-> Get(d, "agent_template_type",
                                        Str("EinsteinServiceAgent")),
                  domain |-> Get(d, "domain", Str("General")),
                  sample_utterances |-> Get(d, "sample_utterances", EmptyList),
                  variables |-> Get(d, "variables", EmptyList),
                  system_messages |-> Get(d, "system_messages", EmptyList),
                  topics |-> Get(d, "topics", EmptyList)])])

CompanyBonus == 5
InternalBonus == 3
MessagesBonus == 2
VariablesBonus == 2
AdapterCap == 95

\* line 77
VerifiedCompany(d) ==
    Truthy(Get(d, "company_name", None)) /\ d["company_name"] # Str("Unknown")

\* lines 77-87: what is added to base_score, given len(system_messages)
\* and len(variables)
AgentforceBonus(d, messages, variables) ==
    (IF VerifiedCompany(d) THEN CompanyBonus ELSE 0)
    + (IF IsLit(Get(d, "agent_type", None), "Internal") THEN InternalBonus ELSE 0)
    + (IF messages > 0 THEN MessagesBonus ELSE 0)
    + (IF variables > 0 THEN VariablesBonus ELSE 0)

\* AgentforceScore without the cap of line 89
AgentforceScoreUncapped(d, base_score) ==
    LET messages == PyLen(Get(d, "system_messages", EmptyList))
        variables == PyLen(Get(d, "variables", EmptyList))
    IN  IF IsRaise(base_score) THEN base_score
        ELSE IF IsRaise(messages) THEN messages
        ELSE IF IsRaise(variables) THEN variables
        ELSE Num(base_score.i + AgentforceBonus(d, messages.i, variables.i))

\* lines 74-89: trustScore
AgentforceScore(d, base_score) ==
    LET messages == PyLen(Get(d, "system_messages", EmptyList))
        variables == PyLen(Get(d, "variables", EmptyList))
    IN  IF IsRaise(base_score) THEN base_score
        ELSE IF IsRaise(messages) THEN messages
        ELSE IF IsRaise(variables) THEN variables
        ELSE Num(Min(base_score.i + AgentforceBonus(d, messages.i, variables.i),
                     AdapterCap))

\* lines 29-91, data being what lines 19-26 produced
AgentforceNormalized(data) ==
    IF IsRaise(data) THEN data
    ELSE IF ~IsDict(data) THEN Raise("AttributeError")
    ELSE IF IsRaise(AgentforceCapabilities(data.d)) THEN AgentforceCapabilities(data.d)
    ELSE LET rec == AgentforceRecord(data.d, AgentforceCapabilities(data.d))
             score == AgentforceScore(data.d, calculate_trust_score(rec.d))
         IN  IF IsRaise(score) THEN score
             ELSE Dict([trustScore |-> score] @@ rec.d)

\* lines 15-91: AgentforceAdapter.normalize_agent_data(agentforce_data)
AgentforceAdapter_normalize_agent_data(agentforce_data) ==
    AgentforceNormalized(AgentforceData(agentforce_data))

\* hasattr(value, '__iter__') (line 110)
Iterable(value) == value.t \in {"str", "list", "dict"}

\* lines 107-113: the entry of data for one collection attribute
ExtractedCollection(agent_obj, attr) ==
    IF Iterable(agent_obj.attrs[attr]) THEN Iterate(agent_obj.attrs[attr])
    ELSE agent_obj.attrs[attr]

\* lines 94-115: AgentforceAdapter.extract_from_sdk_agent(agent_obj)
extract_from_sdk_agent(agent_obj) ==
    LET collections == {attr \in {"topics", "actions", "variables", "system_messages",
                                  "sample_utterances"} : HasAttr(agent_obj, attr)}
    IN  Dict([attr \in collections |-> ExtractedCollection(agent_obj, attr)]
             @@ [name |-> GetAttr(agent_obj, "name", Str("SDK Agent")),
                 description |-> GetAttr(agent_obj, "description", Str("")),
                 agent_type |-> GetAttr(agent_obj, "agent_type", Str("External")),
                 agent_template_type |-> GetAttr(agent_obj, "agent_template_type",
                                                 Str("EinsteinServiceAgent")),
                 company_name |-> GetAttr(agent_obj, "company_name", Str("Unknown")),
                 domain |-> GetAttr(agent_obj, "domain", Str("General"))])

\* line 175: the input is taken for an SDK object
LooksLikeSdkAgent(agent_data) == Contains(Lower(ClassName(agent_data)), "agent")

\* lines 175-178: the value handed to normalize_agent_data
AgentforceInput(agent_data) ==
    IF LooksLikeSdkAgent(agent_data) THEN extract_from_sdk_agent(agent_data)
    ELSE agent_data

\* lines 175-178: how the record was obtained
AgentforceSteps(agent_data) ==
    (IF LooksLikeSdkAgent(agent_data) THEN <<"extract">> ELSE <<>>)
    \o <<AgentforceSource(AgentforceInput(agent_data))>>

\* lines 180-181, normalized being the adapter's record
RegisterAdapted(normalized, steps, self_email, http) ==
    IF IsRaise(normalized) THEN Outcome(normalized, steps, <<>>)
    ELSE Outcome(register(normalized, self_email, NoAnswer, http).ret,
                 steps \o register(normalized, self_email, NoAnswer, http).steps,
                 register(normalized, self_email, NoAnswer, http).sent)

\* lines 170-181: register_agentforce(agent_data, email), the client's
\* email being self_email
register_agentforce(agent_data, self_email, http) ==
    RegisterAdapted(AgentforceAdapter_normalize_agent_data(AgentforceInput(agent_data)),
                    AgentforceSteps(agent_data), self_email, http)

(***************************************************************************)
(* The Agentforce adapter: specification                                   *)
(***************************************************************************)
MaxFields == 3
MaxSdkAttrs == 1

\* the fields of an Agentforce definition, in the order they are added
AgentforceKeys ==
    <<"name", "description", "company_name", "agent_type", "agent_template_type",
      "domain", "topics", "actions", "variables", "system_messages">>

\* the values tried under each field
AgentforceVals(k) ==
    CASE k = "name" -> {Str("Support Bot")}
      [] k = "description" -> {Str("Handles cases"), None}
      [] k = "company_name" -> {Str("Acme"), Str("Unknown"), Str("")}
      [] k = "agent_type" -> {Str("External"), Str("Internal")}
      [] k = "agent_template_type" -> {Str("EinsteinServiceAgent")}
      [] k = "domain" -> {Str("Support")}
      [] k = "topics" ->
            {List(<<Str("billing"), Str("returns"), Str("faq")>>), Num(5)}
      [] k = "actions" ->
            {List(<<Dict([name |-> Str("lookup")]), Str("escalate")>>)}
      [] k = "variables" -> {List(<<Str("order_id")>>), EmptyList}
      [] k = "system_messages" -> {List(<<Str("Be polite")>>), None}

\* a definition that earns every boost of the adapter
FullDefinition ==
    Dict([name |-> Str("Support Bot"), company_name |-> Str("Acme"),
          agent_type |-> Str("Internal"), domain |-> Str("Support"),
          variables |-> List(<<Str("order_id")>>),
          system_messages |-> List(<<Str("Be polite")>>)])

\* the self-serialization methods an SDK object may offer
Serializers ==
    {<<>>,
     [to_dict |-> Method(Dict([name |-> Str("From to_dict"),
                               company_name |-> Str("Acme")]))],
     [to_json |-> Method(Str("{\"name\": \"X\"}"))],
     [to_dict |-> Method(Dict([name |-> Str("From to_dict")])),
      to_json |-> Method(Str("{}"))],
     [to_dict |-> Method(EmptyList)]}

\* (class name, declaring module) of the objects tried
SdkClasses == {<<"ServiceAgent", "agentforce.sdk">>, <<"Deployment", "agentforce.sdk">>}

AgentforceInputs ==
    {EmptyDict, FullDefinition, Str("Support Bot")}
    \cup {Obj(c[1], c[2], TRUE, m) : c \in SdkClasses, m \in Serializers}

InitAgentforce ==
    /\ input \in AgentforceInputs
    /\ email = None
    /\ env = NoEnv
    /\ call = NoCall
    /\ requests = <<>>

\* the fields among the keys of d
FieldsOf(d) == {i \in 1..Len(AgentforceKeys) : AgentforceKeys[i] \in DOMAIN d}

\* the fields that may still be added to d, in AgentforceKeys order
AddableFields(d) ==
    {i \in 1..Len(AgentforceKeys) : \A j \in FieldsOf(d) : j < i}

\* the caller fills in the definition: agent_data[k] = v, or
\* setattr(agent, k, v)
SetAgentforceItem ==
    /\ \/ /\ IsDict(input)
          /\ Cardinality(DOMAIN input.d) < MaxFields
          /\ \E i \in AddableFields(input.d) : \E v \in AgentforceVals(AgentforceKeys[i]) :
                input' = Dict((AgentforceKeys[i] :> v) @@ input.d)
       \/ /\ input.t = "obj"
          /\ Cardinality(FieldsOf(input.attrs)) < MaxSdkAttrs
          /\ \E i \in AddableFields(input.attrs) :
                \E v \in AgentforceVals(AgentforceKeys[i]) :
                    input' = [input EXCEPT !.attrs = (AgentforceKeys[i] :> v) @@ @]
    /\ call' = NoCall
    /\ UNCHANGED <<email, env, requests>>

\* AgentforceAdapter.normalize_agent_data(input)
AgentforceNormalize ==
    /\ call' = MkCall("AgentforceAdapter.normalize_agent_data",
                       <<AgentforceSource(input)>>,
                       AgentforceAdapter_normalize_agent_data(input), 0)
    /\ UNCHANGED <<input, email, env, requests>>

\* register_agentforce(input, arg)
RegisterAgentforce ==
    /\ Len(requests) < MaxRequests
    /\ \E arg \in EmailArgs, environ \in EnvironEmails :
        \E out \in {register_agentforce(input, ClientEmail(arg, environ), NoAnswer)} :
            /\ call' = MkCall("register_agentforce", out.steps, out.ret, Len(out.sent))
            /\ requests' = requests \o out.sent
            /\ email' = ClientEmail(arg, environ)
            /\ UNCHANGED <<input, env>>

NextAgentforce == SetAgentforceItem \/ AgentforceNormalize \/ RegisterAgentforce

SpecAgentforce == InitAgentforce /\ [][NextAgentforce]_vars

(***************************************************************************)
(* The Agentforce adapter: properties                                      *)
(***************************************************************************)

\* the adapter has returned a record for the input
AdapterReturned ==
    call.op = "AgentforceAdapter.normalize_agent_data" /\ IsDict(call.ret)

\* the boosts of the adapter, the company boost given as company
BoostedScore(d, r, company) ==
    calculate_trust_score(r).i + 5 * Ind(company)
    + 3 * Ind(Get(d, "agent_type", None) = Str("Internal"))
    + 2 * Ind(Truthy(Get(d, "system_messages", EmptyList)))
    + 2 * Ind(Truthy(Get(d, "variables", EmptyList)))

C26_SerializerPreferred ==
    (call.op = "register_agentforce" /\ input.t = "obj") =>
        /\ HasAttr(input, "to_dict") =>
                Asked(call.steps, "to_dict") /\ ~Asked(call.steps, "extract")
        /\ (~HasAttr(input, "to_dict") /\ HasAttr(input, "to_json")) =>
                Asked(call.steps, "to_json") /\ ~Asked(call.steps, "extract")
        /\ Asked(call.steps, "extract") =>
                ~HasAttr(input, "to_dict") /\ ~HasAttr(input, "to_json")

\* C28: detect_agent_type applied to the record produced by
\* AgentforceAdapter.normalize_agent_data returns agentforce.
C28_AdapterRoundTrip ==
    AdapterReturned => detect_agent_type(call.ret) = Str("agentforce")

(***************************************************************************)
(* The module-level register_agent (astrasync/__init__.py)                 *)
(***************************************************************************)

\* line 12: _default_client = None; once a client exists, the variable
\* email holds its AstraSync.email
NoClient == [t |-> "noclient"]

\* a call register_agent(agent_data, email)
RegisterAgentCall(agent_data, em) ==
    [t |-> "register_agent", agent_data |-> agent_data, email |-> em]

\* lines 17-18: _default_client after the test, as the email of the client
DefaultClient(client, em, environ) ==
    IF client = NoClient THEN ClientEmail(em, environ) ELSE client

\* lines 14-19: register_agent(agent_data, email), client being
\* _default_client before the call
register_agent(agent_data, em, client, environ, fs, http) ==
    register(agent_data, DefaultClient(client, em, environ), fs, http)

\* the agents handed to register_agent
AgentsRegistered ==
    {Dict([name |-> Str("X"), owner |-> Str("Acme")]),
     Dict([name |-> Str("Y"), owner_email |-> Str("owner@example.com")]),
     Str("{\"name\": \"X\"}")}

\* the email arguments of the calls
CallerEmails ==
    {None, Str("first@example.com"), Str("second@example.com"), Str("third@example.com")}

InitRegisterAgent ==
    /\ input = None
    /\ email = NoClient
    /\ env = NoEnv
    /\ call = NoCall
    /\ requests = <<>>

\* register_agent(agent_data, em)
RegisterAgent ==
    /\ Len(requests) < MaxRequests
    /\ \E agent_data \in AgentsRegistered, em \in CallerEmails,
          environ \in EnvironEmails :
        \E fs \in FsAsked(agent_data) :
            \E http \in HttpAsked(agent_data, DefaultClient(email, em, environ), fs) :
                \E out \in {register_agent(agent_data, em, email, environ, fs, http)} :
                    /\ input' = RegisterAgentCall(agent_data, em)
                    /\ email' = DefaultClient(email, em, environ)
                    /\ call' = MkCall("register_agent", out.steps, out.ret, Len(out.sent))
                    /\ requests' = requests \o out.sent
                    /\ env' = [fs |-> fs, http |-> http]

NextRegisterAgent == RegisterAgent

SpecRegisterAgent == InitRegisterAgent /\ [][NextRegisterAgent]_vars

\* C27: after any sequence of calls of register_agent(agent_data, email),
\* the client used for a call is configured with that call's email
\* argument: a later call with another email is not registered under the
\* email of the first call.
C27_EachCallOwnEmail ==
    (call.op = "register_agent" /\ Truthy(input.email)) => email = input.email

(***************************************************************************)
(* AgentforceAdapter.create_registration_decorator                         *)
(***************************************************************************)

\* an instance under construction by a decorated class: whether the
\* original __init__ raises, the instance it leaves, and the email given
\* to create_registration_decorator
Construction(init_raises, self, em) ==
    [t |-> "construct", init_raises |-> init_raises, self |-> self, email |-> em]

\* an exception raised by the code of the decorated class, whose text is
\* ASCII or not
RaiseWith(e, ascii) == [t |-> "raise", exc |-> e, ascii |-> ascii]

\* str(e) is ASCII: the texts of the exceptions the SDK and the interpreter
\* raise on this path are
AsciiText(exc) == IF "ascii" \in DOMAIN exc THEN exc.ascii ELSE TRUE

\* lines 159-161: the handler prints str(e) and new_init returns
ConstructHandler(self, exc, stdout, steps, sent) ==
    IF stdout # "utf-8" /\ ~AsciiText(exc)
    THEN Outcome(Raise("UnicodeEncodeError"), Append(steps, "handler"), sent)
    ELSE Outcome(self, Append(steps, "handler"), sent)

\* lines 153-157, once client.register has returned result
ConstructRegistered(self, result, stdout, steps, sent) ==
    IF ~IsDict(result) THEN ConstructHandler(self, Raise("TypeError"), stdout, steps, sent)
    ELSE IF ~Has(result.d, "agentId")
    THEN ConstructHandler(self, Raise("KeyError"), stdout, steps, sent)
    ELSE IF ~Has(result.d, "trustScore")
    THEN ConstructHandler(SetAttrs(self, [astrasync_id |-> result.d["agentId"]]),
                          Raise("KeyError"), stdout, steps, sent)
    ELSE LET marked == SetAttrs(self, [astrasync_id |-> result.d["agentId"],
                                       astrasync_trust_score |-> result.d["trustScore"]])
         IN  IF IsRaise(PrintMessage(stdout))
             THEN ConstructHandler(marked, PrintMessage(stdout), stdout, steps, sent)
             ELSE Outcome(marked, steps, sent)

\* lines 142-145: agent_data
ConstructData(self) ==
    IF HasAttr(self, "to_dict") THEN CallAttr(self, "to_dict")
    ELSE extract_from_sdk_agent(self)

\* lines 148-161, agent_data being what lines 142-145 produced
ConstructSend(self, agent_data, self_email, http, stdout) ==
    IF IsRaise(agent_data) THEN ConstructHandler(self, agent_data, stdout, <<>>, <<>>)
    ELSE IF IsRaise(AgentforceAdapter_normalize_agent_data(agent_data))
    THEN ConstructHandler(self, AgentforceAdapter_normalize_agent_data(agent_data),
                          stdout, <<"normalize">>, <<>>)
    ELSE LET out == register(AgentforceAdapter_normalize_agent_data(agent_data),
                             self_email, NoAnswer, http)
         IN  IF IsRaise(out.ret)
             THEN ConstructHandler(self, out.ret, stdout,
                                   <<"normalize", "register", "raised">>, out.sent)
             ELSE ConstructRegistered(self, out.ret, stdout,
                                      <<"normalize", "register", "returned">>, out.sent)

\* lines 124-161: new_init(self), c.self being the instance the original
\* __init__ leaves
new_init(c, environ, http, stdout) ==
    IF c.init_raises THEN Outcome(c.self, <<"skipped">>, <<>>)
    ELSE IF ~HasAttr(c.self, "name") THEN Outcome(c.self, <<"unnamed">>, <<>>)
    ELSE ConstructSend(c.self, ConstructData(c.self), ClientEmail(c.email, environ),
                       http, stdout)

\* the attributes the original __init__ may leave on the instance
InstanceAttrs ==
    {<<>>,
     [company_name |-> Str("Acme")],
     [name |-> Str("Support Bot")],
     [name |-> Str("Support Bot"), topics |-> List(<<Str("billing")>>)],
     [name |-> Str("Support Bot"), topics |-> Num(5)],
     [name |-> Str("Support Bot"),
      to_dict |-> Method(Dict([name |-> Str("From to_dict")]))],
     [name |-> Str("Support Bot"), to_dict |-> Method(RaiseWith("ValueError", TRUE))],
     [name |-> Str("Support Bot"), to_dict |-> Method(RaiseWith("ValueError", FALSE))],
     [name |-> Str("Support Bot"), to_dict |-> Method(EmptyList)],
     [name |-> None, to_dict |-> Str("not a method")]}

Constructions ==
    {Construction(init_raises, Obj("ServiceAgent", "__main__", TRUE, attrs), em) :
        init_raises \in BOOLEAN, attrs \in InstanceAttrs, em \in EmailArgs}

InitConstruct ==
    /\ input \in Constructions
    /\ email = None
    /\ env = NoEnv
    /\ call = NoCall
    /\ requests = <<>>

\* an instance of the decorated class is constructed
Construct ==
    /\ call.op = "none"
    /\ \E environ \in EnvironEmails, stdout \in StdoutEncodings :
        \E out \in {new_init(input, environ, NoAnswer, stdout)} :
            /\ call' = MkCall("construct", out.steps, out.ret, Len(out.sent))
            /\ requests' = requests \o out.sent
            /\ email' = ClientEmail(input.email, environ)
            /\ env' = [fs |-> NoAnswer, http |-> NoAnswer, stdout |-> stdout]
            /\ UNCHANGED input

NextConstruct == Construct

SpecConstruct == InitConstruct /\ [][NextConstruct]_vars

\* C29: constructing an instance of a class wrapped by
\* create_registration_decorator never propagates an exception; if the
\* original __init__ raises, registration is skipped and no client call is
\* made; registration is attempted only when the instance has a name
\* attribute; astrasync_id and astrasync_trust_score are set only when the
\* client's register call returned, and a registration failure leaves them
\* unset.
C29_ConstructionContained ==
    call.op = "construct" =>
        /\ ~IsRaise(call.ret)
        /\ input.init_raises =>
                ~Asked(call.steps, "register") /\ call.sent = 0 /\ call.ret = input.self
        /\ Asked(call.steps, "register") => HasAttr(input.self, "name")
        /\ (HasAttr(call.ret, "astrasync_id") \/ HasAttr(call.ret, "astrasync_trust_score"))
                => Asked(call.steps, "returned")
        /\ Asked(call.steps, "raised") =>
                ~HasAttr(call.ret, "astrasync_id")
                /\ ~HasAttr(call.ret, "astrasync_trust_score")

(***************************************************************************)
(* The adapter template (create_remaining_adapters.py)                     *)
(***************************************************************************)

\* lines 9-23 and 24-38: two of the adapters the template is filled in for
Adapters ==
    {[agent_type |-> "babyagi", display_name |-> "BabyAGI",
      description |-> "Autonomous task management AI system",
      module_patterns |-> {"babyagi", "baby_agi"},
      class_patterns |-> {"BabyAGI", "TaskAgent"},
      dict_fields |-> <<"objective", "task_list", "task", "tasks">>,
      capabilities |-> <<"task_management", "autonomous_execution", "memory">>],
     [agent_type |-> "superagi", display_name |-> "SuperAGI",
      description |-> "Enterprise autonomous agent framework",
      module_patterns |-> {"superagi", "super_agi"},
      class_patterns |-> {"SuperAGI", "Agent", "Workflow"},
      dict_fields |-> <<"agent_config", "tools", "goals", "instructions", "workflows">>,
      capabilities |-> <<"workflows", "toolkits", "memory", "telemetry">>]}

\* hasattr(agent_data, '__class__') (line 131): every Python value has a class
HasClass(agent_data) == TRUE

\* lines 123-128
TemplateStart(adapter) ==
    [agentType |-> Str(adapter.agent_type), version |-> Str("1.0"),
     capabilities |-> EmptyList, metadata |-> EmptyDict]

\* lines 135 and 248-249: module_check
ModuleCheck(adapter, agent_data) ==
    \E pattern \in adapter.module_patterns :
        Contains(Lower(ModuleName(agent_data)), pattern)

\* lines 140 and 253-255: class_check
ClassCheck(adapter, agent_data) ==
    \E pattern \in adapter.class_patterns : Contains(ClassName(agent_data), pattern)

\* lines 145-148: the config entry of metadata
TemplateConfig(agent_data) ==
    IF HasAttr(agent_data, "config") /\ IsDict(agent_data.attrs["config"])
    THEN [config |-> agent_data.attrs["config"]] ELSE <<>>

\* lines 132-148: the object branch
TemplateObject(adapter, agent_data, n) ==
    IF ~ModuleCheck(adapter, agent_data) THEN n
    ELSE (IF ClassCheck(adapter, agent_data)
          THEN [description |-> GetAttr(agent_data, "description",
                                        Str(adapter.description)),
                capabilities |-> List(<<Str(adapter.capabilities[1] \o ":enabled")>>)]
          ELSE <<>>)
         @@ [name |-> GetAttr(agent_data, "name",
                              Str(ClassName(agent_data) \o " Instance")),
             metadata |-> Dict(TemplateConfig(agent_data)
                               @@ [agentClass |-> Str(ClassName(agent_data))])]
         @@ n

\* lines 260-268: what one dict field adds to metadata
FieldMetadata(d, field) ==
    IF ~Has(d, field) THEN <<>>
    ELSE IF IsList(d[field]) THEN (field \o "Count") :> Num(Len(d[field].l))
    ELSE field :> d[field]

\* lines 264-266: the capability one dict field adds
FieldCapability(d, field) ==
    IF Has(d, field) /\ IsList(d[field])
    THEN <<Str(field \o ":" \o Digits(Len(d[field].l)))>> ELSE <<>>

RECURSIVE FieldCapabilities(_, _)
FieldCapabilities(d, fields) ==
    IF Len(fields) = 0 THEN <<>>
    ELSE FieldCapability(d, Head(fields)) \o FieldCapabilities(d, Tail(fields))

RECURSIVE FieldsMetadata(_, _)
FieldsMetadata(d, fields) ==
    IF Len(fields) = 0 THEN <<>>
    ELSE FieldMetadata(d, Head(fields)) @@ FieldsMetadata(d, Tail(fields))

\* lines 153-158: the dictionary branch
TemplateDict(adapter, d, n) ==
    [field \in {"name", "description", "owner", "version"} \cap DOMAIN d |-> d[field]]
    @@ [capabilities |-> List(FieldCapabilities(d, adapter.dict_fields)),
        metadata |-> Dict(FieldsMetadata(d, adapter.dict_fields))]
    @@ n

\* lines 131-158: which branch takes the input
TemplateBranch(agent_data) ==
    IF HasClass(agent_data) THEN "object"
    ELSE IF IsDict(agent_data) THEN "dict"
    ELSE "none"

\* lines 123-158: normalized, before line 161
TemplateCollected(adapter, agent_data) ==
    CASE TemplateBranch(agent_data) = "object" ->
            TemplateObject(adapter, agent_data, TemplateStart(adapter))
      [] TemplateBranch(agent_data) = "dict" ->
            TemplateDict(adapter, agent_data.d, TemplateStart(adapter))
      [] OTHER -> TemplateStart(adapter)

\* list(set(capabilities)) (line 161): the distinct entries, in any order
SetOrders(l) ==
    LET elems == {l[i] : i \in 1..Len(l)}
    IN  {q \in [1..Cardinality(elems) -> elems] :
            \A i, j \in 1..Cardinality(elems) : q[i] = q[j] => i = j}

\* lines 164-171
TemplateDefaults(adapter, n) ==
    n @@ [name |-> Str("Unnamed " \o adapter.display_name \o " Agent"),
          description |-> Str(adapter.description),
          owner |-> Str("Unknown"),
          version |-> Str("1.0")]

TemplateCap == 95
CapabilityBonusMax == 5
EnabledBonus == 5

\* lines 177-179 and 281-282: the bonuses, capabilities being the list
TemplateBonus(adapter, capabilities) ==
    (IF Len(capabilities) > 0 THEN Min(CapabilityBonusMax, Len(capabilities)) ELSE 0)
    + EnabledBonus * Cardinality({i \in 1..Len(adapter.capabilities) :
            \E j \in 1..Len(capabilities) :
                capabilities[j] = Str(adapter.capabilities[i] \o ":enabled")})

\* lines 164-183, capabilities being the list line 161 produced
TemplateFinish(adapter, collected, capabilities) ==
    LET n == TemplateDefaults(adapter,
                              [capabilities |-> List(capabilities)] @@ collected)
    IN  IF IsRaise(calculate_trust_score(n)) THEN calculate_trust_score(n)
        ELSE Dict([trustScore |->
                    Num(Min(calculate_trust_score(n).i
                            + TemplateBonus(adapter, capabilities), TemplateCap))]
                  @@ n)

MaxTemplateFields == 2

\* the fields and attributes tried, and their values
TemplateVals(k) ==
    CASE k = "name" -> {Str("Task Runner")}
      [] k = "description" -> {Str("Runs tasks"), None}
      [] k = "owner" -> {Str("Acme")}
      [] k = "version" -> {Str("2.0")}
      [] k = "objective" -> {Str("Solve it")}
      [] k = "tools" -> {List(<<Str("search"), Str("calc")>>)}
      [] k = "tasks" -> {List(<<Str("a"), Str("b")>>)}
      [] k = "config" -> {Dict([mode |-> Str("fast")]), Str("prod")}

TemplateKeys ==
    {"name", "description", "owner", "version", "objective", "tools", "tasks", "config"}

\* the contents of the mappings and the attributes of the objects tried
TemplateContents ==
    UNION {{f \in [S -> UNION {TemplateVals(k) : k \in S}] :
                \A k \in S : f[k] \in TemplateVals(k)} :
           S \in {T \in SUBSET TemplateKeys : Cardinality(T) <= MaxTemplateFields}}

\* (class name, declaring module) of the objects tried
TemplateClasses ==
    {<<"BabyAGI", "babyagi.core">>, <<"Planner", "BabyAGI.agents">>,
     <<"Agent", "superagi.agent">>, <<"Bot", "__main__">>}

TemplateInputs ==
    {Dict(f) : f \in TemplateContents}
    \cup {Obj(c[1], c[2], TRUE, f) : c \in TemplateClasses, f \in TemplateContents}

InitTemplate ==
    /\ input \in TemplateInputs
    /\ email = None
    /\ env = NoEnv
    /\ call = NoCall
    /\ requests = <<>>

\* normalize_agent_data(input) of the adapter generated for adapter
TemplateNormalize ==
    /\ call.op = "none"
    /\ \E adapter \in Adapters :
        \E collected \in {TemplateCollected(adapter, input)} :
            \E capabilities \in SetOrders(collected.capabilities.l) :
                call' = MkCall("template.normalize_agent_data",
                               <<adapter.agent_type, TemplateBranch(input)>>,
                               TemplateFinish(adapter, collected, capabilities), 0)
    /\ UNCHANGED <<input, email, env, requests>>

NextTemplate == TemplateNormalize

SpecTemplate == InitTemplate /\ [][NextTemplate]_vars

\* C30: in the generated adapters, normalize_agent_data given a dictionary
\* copies the name, description, owner and version fields present in it
\* into the normalized record, and for every input the result has name,
\* description, owner and version set, duplicate-free capabilities, and
\* trustScore <= 95.
C30_TemplateCopiesFields ==
    (call.op = "template.normalize_agent_data" /\ IsDict(call.ret)) =>
        /\ IsDict(input) =>
                \A field \in {"name", "description", "owner", "version"} :
                    Has(input.d, field) => call.ret.d[field] = input.d[field]
        /\ \A field \in {"name", "description", "owner", "version"} :
                Has(call.ret.d, field)
        /\ \A i, j \in 1..Len(call.ret.d["capabilities"].l) :
                call.ret.d["capabilities"].l[i] = call.ret.d["capabilities"].l[j]
                    => i = j
        /\ call.ret.d["trustScore"].i <= 95

====
